---- MODULE Spec2Model ----
(***************************************************************************)
(* Model of the wineserver registry engine (server/registry.c): the key    *)
(* tree, name lookup with symbolic links, value store, dirty marking,      *)
(* change notification, load/save and the request handlers.                *)
(*                                                                         *)
(* Strings are sequences of 16-bit character codes.  A key is a record of  *)
(* the fields of struct key; keys[k] is the key with identity k, 0 is the  *)
(* NULL pointer.  A handle to a key is modelled by the key's identity: the *)
(* client keeps one handle open on every key it ever obtained, until it    *)
(* closes it; k + SecondHandle is a second handle it opened on key k.      *)
(***************************************************************************)
EXTENDS Integers, Sequences, FiniteSets, TLC

VARIABLES
    keys,          \* sequence of struct key; index = identity of the key
    current_time,  \* the server clock
    prefix_type,   \* PREFIX_UNKNOWN / PREFIX_32BIT / PREFIX_64BIT
    events,        \* event object -> signaled?
    reply,         \* the last request and its reply
    crashed,       \* the server process died (NULL dereference, failed assert)
    lk,            \* a key_lookup_name symlink resolution in progress
    closed,        \* the handles the client has closed
    save_timeout_user  \* saving timer: NULL, "pending", or "expired" once fired

vars == <<keys, current_time, prefix_type, events, reply, crashed, lk, closed,
          save_timeout_user>>

----------------------------------------------------------------------------
(* Bounds of the model *)

MaxKeys   == 7    \* keys ever allocated (5 exist after init_registry)
MaxValueKeys == 6 \* keys ever allocated while the values are exercised
MaxValues == 2    \* values stored in the whole tree
MaxTime   == 2    \* last value of the server clock
MaxNotify == 2    \* notification records in the whole tree
MaxChain  == 19   \* longest chain of symbolic links built for lookups

----------------------------------------------------------------------------
(* Program constants *)

MIN_SUBKEYS   == 8
MIN_VALUES    == 8
MAX_NAME_LEN  == 256
MAX_VALUE_LEN == 16383
MAX_SYMLINK_ITERATIONS == 16

REG_NONE == 0
REG_SZ   == 1
REG_EXPAND_SZ == 2
REG_BINARY == 3
REG_DWORD  == 4
REG_LINK == 6
REG_MULTI_SZ == 7

REG_NOTIFY_CHANGE_NAME     == 1
REG_NOTIFY_CHANGE_LAST_SET == 4

NULL == 0

\* Op applied to the value of v: a local variable, computed once
With(v, Op(_)) == CHOOSE r \in {Op(x) : x \in {v}} : TRUE

----------------------------------------------------------------------------
(* Characters and names *)

Backslash == 92

\* "\REGISTRY" without the leading backslash
registryW == <<82, 69, 71, 73, 83, 84, 82, 89>>
root_name == <<Backslash>> \o registryW
wow6432node == <<87, 111, 119, 54, 52, 51, 50, 78, 111, 100, 101>>
symlink_value == <<83, 121, 109, 98, 111, 108, 105, 99, 76, 105, 110, 107,
                   86, 97, 108, 117, 101>>
HKLM == <<77, 97, 99, 104, 105, 110, 101>>
HKU  == <<85, 115, 101, 114>>
HKU_default == HKU \o <<Backslash, 46, 68, 101, 102, 97, 117, 108, 116>>
\* "User\S-1-5-21-0-0-0-1000"
current_user_path == HKU \o <<Backslash, 83, 45, 49, 45, 53, 45, 50, 49, 45, 48,
                               45, 48, 45, 48, 45, 49, 48, 48, 48>>

Min(a, b) == IF a < b THEN a ELSE b

tolowerW(c) == IF c >= 65 /\ c <= 90 THEN c + 32 ELSE c

\* compare the characters i..n of two strings, ignoring case: the difference
\* at the first position where they differ
memicmpW_from(s1, s2, i, n) ==
    IF \A j \in i..n : tolowerW(s1[j]) = tolowerW(s2[j]) THEN 0
    ELSE With(CHOOSE j \in i..n :
                  /\ tolowerW(s1[j]) # tolowerW(s2[j])
                  /\ \A k \in i..(j - 1) : tolowerW(s1[k]) = tolowerW(s2[k]),
              LAMBDA j : tolowerW(s1[j]) - tolowerW(s2[j]))

memicmpW(s1, s2, n) == memicmpW_from(s1, s2, 1, n)

\* a variant of CompareNames that tells upper case from lower case; the
\* order of the children is tested against it
CompareNamesExact(a, b) ==
    LET diff == {i \in 1..Min(Len(a), Len(b)) : a[i] # b[i]}
        first == CHOOSE i \in diff : \A j \in diff : i <= j
    IN IF diff # {} THEN a[first] - b[first] ELSE Len(a) - Len(b)

\* the comparison of find_subkey / find_value: over the shorter length, ties
\* broken by length
CompareNames(a, b) ==
    IF memicmpW(a, b, Min(Len(a), Len(b))) # 0
    THEN memicmpW(a, b, Min(Len(a), Len(b)))
    ELSE Len(a) - Len(b)

is_wow6432node(name) ==
    Len(name) = Len(wow6432node) /\ memicmpW(name, wow6432node, Len(wow6432node)) = 0

\* position of the first backslash of a string from position i on, 0 if none
memchrW(s, i) ==
    IF \A j \in i..Len(s) : s[j] # Backslash THEN 0
    ELSE CHOOSE j \in i..Len(s) :
             s[j] = Backslash /\ \A k \in i..(j - 1) : s[k] # Backslash

----------------------------------------------------------------------------
(* Keys, flags and the server state threaded through the functions *)

KEY_VOLATILE == "VOLATILE"
KEY_DELETED  == "DELETED"
KEY_DIRTY    == "DIRTY"
KEY_SYMLINK  == "SYMLINK"
KEY_WOW64    == "WOW64"
KEY_WOWSHARE == "WOWSHARE"

\* the root directory of the object namespace, parent of the root key
ROOT_DIRECTORY == -1

\* a freshly allocated key object: the fields are set by key_link_name and
\* create_key before anything reads them
alloc_object(name) ==
    [ name        |-> name,
      class       |-> <<>>,
      parent      |-> NULL,
      subkeys     |-> <<>>,      \* last_subkey = Len(subkeys) - 1
      nb_subkeys  |-> 0,
      values      |-> <<>>,      \* last_value = Len(values) - 1
      nb_values   |-> 0,
      flags       |-> {},
      modif       |-> 0,
      notify_list |-> <<>> ]

\* the state a function works on: the key objects, the event objects, the
\* thread's last error, whether the process is still alive, and the clock
State(K, E, err, now) ==
    [keys |-> K, events |-> E, err |-> err, crashed |-> FALSE, current_time |-> now]

set_error(S, err) == [S EXCEPT !.err = err]
clear_error(S) == [S EXCEPT !.err = "SUCCESS"]
abort(S) == [S EXCEPT !.crashed = TRUE]

last_subkey(K, k) == Len(K[k].subkeys) - 1
last_value(K, k) == Len(K[k].values) - 1

SeqRemove(s, i) == SubSeq(s, 1, i - 1) \o SubSeq(s, i + 1, Len(s))
SeqInsert(s, i, x) == SubSeq(s, 1, i - 1) \o <<x>> \o SubSeq(s, i, Len(s))

----------------------------------------------------------------------------
(* Notifications *)

\* a variant of do_notification that leaves the event in the record; the
\* single signal of an arming is tested against it
do_notification_keep(S, key, i, del) ==
    LET n  == S.keys[key].notify_list[i]
        E1 == IF n.event # NULL THEN [S.events EXCEPT ![n.event] = TRUE] ELSE S.events
    IN [S EXCEPT !.events = E1,
                 !.keys[key].notify_list = IF del THEN SeqRemove(@, i) ELSE @]

\* notify waiter and maybe delete the notification (i: position in the list)
do_notification(S, key, i, del) ==
    LET n  == S.keys[key].notify_list[i]
        E1 == IF n.event # NULL THEN [S.events EXCEPT ![n.event] = TRUE] ELSE S.events
        L1 == [S.keys[key].notify_list EXCEPT ![i].event = NULL]
    IN [S EXCEPT !.events = E1,
                 !.keys[key].notify_list = IF del THEN SeqRemove(L1, i) ELSE L1]

\* a variant of find_notify that never finds the record; the single record
\* of a handle is tested against it
find_notify_none(K, key, process, hkey) == 0

find_notify(K, key, process, hkey) ==
    LET L == K[key].notify_list
        hits == {i \in 1..Len(L) : L[i].process = process /\ L[i].hkey = hkey}
    IN IF hits = {} THEN 0 ELSE CHOOSE i \in hits : \A j \in hits : i <= j

\* go through all the notifications and send them if necessary
RECURSIVE check_notify_from(_, _, _, _, _)
check_notify_from(S, key, change, not_subtree, i) ==
    IF i > Len(S.keys[key].notify_list) THEN S
    ELSE With(IF (not_subtree \/ S.keys[key].notify_list[i].subtree)
                 /\ (change \cap S.keys[key].notify_list[i].filter) # {}
              THEN do_notification(S, key, i, FALSE)
              ELSE S,
              LAMBDA S1 : check_notify_from(S1, key, change, not_subtree, i + 1))

\* a variant of check_notify that sends to every record whatever its
\* subtree flag; the filtering of notifications is tested against it
check_notify_all(S, key, change, not_subtree) ==
    check_notify_from(S, key, change, TRUE, 1)

check_notify(S, key, change, not_subtree) ==
    check_notify_from(S, key, change, not_subtree, 1)

----------------------------------------------------------------------------
(* Dirty marking and modification time *)

\* a variant of make_dirty that marks the key and leaves its parents alone;
\* the dirty chain is tested against it
make_dirty_key_only(K, key) ==
    IF key = NULL THEN K
    ELSE IF K[key].flags \cap {KEY_DIRTY, KEY_VOLATILE} # {} THEN K
    ELSE [K EXCEPT ![key].flags = @ \cup {KEY_DIRTY}]

\* a variant of make_dirty that does not stop at volatile keys; the
\* separation of volatile and dirty keys is tested against it
RECURSIVE make_dirty_volatile(_, _)
make_dirty_volatile(K, key) ==
    IF key = NULL THEN K
    ELSE IF KEY_DIRTY \in K[key].flags THEN K
    ELSE With([K EXCEPT ![key].flags = @ \cup {KEY_DIRTY}],
              LAMBDA K1 : make_dirty_volatile(K1, K1[key].parent))

\* mark a key and all its parents as dirty (modified)
RECURSIVE make_dirty(_, _)
make_dirty(K, key) ==
    IF key = NULL THEN K
    ELSE IF K[key].flags \cap {KEY_DIRTY, KEY_VOLATILE} # {} THEN K
    ELSE With([K EXCEPT ![key].flags = @ \cup {KEY_DIRTY}],
              LAMBDA K1 : make_dirty(K1, K1[key].parent))

\* mark a key and all its subkeys as clean (not modified)
RECURSIVE make_clean(_, _)
RECURSIVE make_clean_subkeys(_, _, _)
make_clean_subkeys(K, key, i) ==
    IF i > Len(K[key].subkeys) THEN K
    ELSE With(make_clean(K, K[key].subkeys[i]),
              LAMBDA K1 : make_clean_subkeys(K1, key, i + 1))

make_clean(K, key) ==
    IF KEY_VOLATILE \in K[key].flags THEN K
    ELSE IF KEY_DIRTY \notin K[key].flags THEN K
    ELSE With([K EXCEPT ![key].flags = @ \ {KEY_DIRTY}],
              LAMBDA K1 : make_clean_subkeys(K1, key, 1))

RECURSIVE touch_parents(_, _, _)
touch_parents(S, k, change) ==
    IF k = NULL THEN S
    ELSE With(check_notify(S, k, change, FALSE),
              LAMBDA S1 : touch_parents(S1, S1.keys[k].parent, change))

\* update key modification time
touch_key(S, key, change) ==
    With(make_dirty([S.keys EXCEPT ![key].modif = S.current_time], key), LAMBDA K1 :
    With(check_notify([S EXCEPT !.keys = K1], key, change, TRUE), LAMBDA S1 :
         touch_parents(S1, S1.keys[key].parent, change \ {REG_NOTIFY_CHANGE_LAST_SET})))

----------------------------------------------------------------------------
(* The child array *)

\* a variant of grow_subkeys that allocates the first array and never makes
\* it larger; the bound of the children by the capacity is tested against it
grow_subkeys_fixed(K, key) ==
    [K EXCEPT ![key].nb_subkeys = IF @ # 0 THEN @ ELSE MIN_SUBKEYS]

\* try to grow the array of subkeys
grow_subkeys(K, key) ==
    [K EXCEPT ![key].nb_subkeys = IF @ # 0 THEN @ + (@ \div 2) ELSE MIN_SUBKEYS]

\* position (from 1) of a key in the child array of its parent, 0 if absent
subkey_position(K, parent, key) ==
    LET hits == {i \in 1..Len(K[parent].subkeys) : K[parent].subkeys[i] = key}
    IN IF hits = {} THEN 0 ELSE CHOOSE i \in hits : \A j \in hits : i <= j

\* free a given subkey
free_subkey(S, key) ==
    IF S.keys[key].parent = NULL THEN S
    ELSE With(S.keys[key].parent, LAMBDA parent :
         With(subkey_position(S.keys, parent, key), LAMBDA i :
         IF i = 0 THEN abort(S)     \* assert( i <= parent->last_subkey )
         ELSE With([S.keys EXCEPT ![parent].subkeys = SeqRemove(@, i),
                                  ![key].flags = @ \cup {KEY_DELETED},
                                  ![key].parent = NULL], LAMBDA K1 :
              LET nb == K1[parent].nb_subkeys
                  shrunk == IF nb - (nb \div 3) < MIN_SUBKEYS THEN MIN_SUBKEYS
                            ELSE nb - (nb \div 3)
              IN [S EXCEPT !.keys = IF nb > MIN_SUBKEYS
                                       /\ last_subkey(K1, parent) < nb \div 2
                                    THEN [K1 EXCEPT ![parent].nb_subkeys = shrunk]
                                    ELSE K1])))

\* find the named child of a given key and return its index (from 0)
RECURSIVE find_subkey_search(_, _, _, _, _)
find_subkey_search(K, key, name, min, max) ==
    IF min > max THEN [key |-> NULL, index |-> min]
    ELSE With((min + max) \div 2, LAMBDA i :
         With(CompareNames(K[K[key].subkeys[i + 1]].name, name), LAMBDA res :
         IF res = 0 THEN [key |-> K[key].subkeys[i + 1], index |-> i]
         ELSE IF res > 0 THEN find_subkey_search(K, key, name, min, i - 1)
         ELSE find_subkey_search(K, key, name, i + 1, max)))

find_subkey(K, key, name) == find_subkey_search(K, key, name, 0, last_subkey(K, key))

\* link a new key object under its parent
key_link_name(S, key, name, parent) ==
    IF parent = ROOT_DIRECTORY /\ Len(name) <= Len(registryW)
                               /\ memicmpW(registryW, name, Len(name)) = 0
    THEN [ok |-> TRUE, S |-> [S EXCEPT !.keys[key].parent = NULL]]
    ELSE IF parent = ROOT_DIRECTORY
    THEN [ok |-> FALSE, S |-> set_error(S, "OBJECT_NAME_NOT_FOUND")]
    ELSE With(IF last_subkey(S.keys, parent) + 1 = S.keys[parent].nb_subkeys
              THEN grow_subkeys(S.keys, parent) ELSE S.keys, LAMBDA K1 :
         With(find_subkey(K1, parent, name), LAMBDA f :
         IF f.key # NULL
         THEN [ok |-> FALSE, S |-> abort(S)]    \* assert( !find_subkey(...) )
         ELSE With([S EXCEPT !.keys = [K1 EXCEPT ![parent].subkeys =
                                                     SeqInsert(@, f.index + 1, key)]],
                   LAMBDA S2 :
              With(touch_key(S2, parent, {REG_NOTIFY_CHANGE_NAME}), LAMBDA S3 :
              [ok |-> TRUE, S |-> [S3 EXCEPT !.keys[key].parent = parent]]))))

\* delete a key and its values
RECURSIVE delete_key(_, _, _)
RECURSIVE delete_subkeys(_, _)
delete_subkeys(S, key) ==
    IF last_subkey(S.keys, key) < 0 \/ S.crashed THEN S
    ELSE With(delete_key(S, S.keys[key].subkeys[Len(S.keys[key].subkeys)], TRUE).S,
              LAMBDA S1 : delete_subkeys(S1, key))

\* a variant of delete_key that does not touch the parent; the effects of a
\* deletion on the parent are tested against it
delete_key_untouched(S, key, recurse) ==
    With(IF recurse THEN delete_subkeys(S, key) ELSE S, LAMBDA S1 :
    IF last_subkey(S1.keys, key) >= 0
    THEN [ret |-> -1, S |-> set_error(S1, "ACCESS_DENIED")]
    ELSE [ret |-> 0, S |-> free_subkey(S1, key)])

\* a variant of delete_key without the test for remaining subkeys; the
\* refusal to delete a key with children is tested against it
delete_key_unchecked(S, key, recurse) ==
    With(IF recurse THEN delete_subkeys(S, key) ELSE S, LAMBDA S1 :
    With(free_subkey(S1, key), LAMBDA S2 :
         [ret |-> 0,
          S |-> IF S.keys[key].parent # NULL /\ ~S2.crashed
                THEN touch_key(S2, S.keys[key].parent, {REG_NOTIFY_CHANGE_NAME})
                ELSE S2]))

delete_key(S, key, recurse) ==
    With(IF recurse THEN delete_subkeys(S, key) ELSE S, LAMBDA S1 :
    IF last_subkey(S1.keys, key) >= 0
    THEN [ret |-> -1, S |-> set_error(S1, "ACCESS_DENIED")]
    ELSE With(free_subkey(S1, key), LAMBDA S2 :
         [ret |-> 0,
          S |-> IF S.keys[key].parent # NULL /\ ~S2.crashed
                THEN touch_key(S2, S.keys[key].parent, {REG_NOTIFY_CHANGE_NAME})
                ELSE S2]))

----------------------------------------------------------------------------
(* The value array *)

\* a payload is a sequence of bytes; a wide string takes two bytes per unit
WideToBytes(w) ==
    [i \in 1..(2 * Len(w)) |-> IF i % 2 = 1 THEN w[(i + 1) \div 2] % 256
                               ELSE w[i \div 2] \div 256]

\* the whole WCHARs of a payload (a trailing odd byte is dropped)
BytesToWide(d) == [i \in 1..(Len(d) \div 2) |-> d[2 * i - 1] + 256 * d[2 * i]]

\* try to grow the array of values
grow_values(K, key) ==
    [K EXCEPT ![key].nb_values = IF @ # 0 THEN @ + (@ \div 2) ELSE MIN_VALUES]

\* find the named value of a given key and return its index (from 0) in the array
RECURSIVE find_value_search(_, _, _, _, _)
find_value_search(K, key, name, min, max) ==
    IF min > max THEN [found |-> FALSE, index |-> min]
    ELSE With((min + max) \div 2, LAMBDA i :
         With(CompareNames(K[key].values[i + 1].name, name), LAMBDA res :
         IF res = 0 THEN [found |-> TRUE, index |-> i]
         ELSE IF res > 0 THEN find_value_search(K, key, name, min, i - 1)
         ELSE find_value_search(K, key, name, i + 1, max)))

\* a variant of find_value that tells upper case from lower case; the order
\* of the values is tested against it
find_value_exact(K, key, name) ==
    LET before == {i \in 1..Len(K[key].values) :
                      CompareNamesExact(K[key].values[i].name, name) < 0}
        same == {i \in 1..Len(K[key].values) : K[key].values[i].name = name}
    IN IF same # {} THEN [found |-> TRUE, index |-> (CHOOSE i \in same : TRUE) - 1]
       ELSE [found |-> FALSE, index |-> Cardinality(before)]

find_value(K, key, name) == find_value_search(K, key, name, 0, last_value(K, key))

\* a variant of insert_value that refuses a name of MAX_VALUE_LEN characters
\* too; the limit on the length of a value name is tested against it
insert_value_short(S, key, name, index) ==
    IF Len(name) >= MAX_VALUE_LEN
    THEN [ok |-> FALSE, S |-> set_error(S, "NAME_TOO_LONG")]
    ELSE LET K1 == IF last_value(S.keys, key) + 1 = S.keys[key].nb_values
                   THEN grow_values(S.keys, key) ELSE S.keys
             v  == [name |-> name, type |-> REG_NONE, data |-> <<>>]
         IN [ok |-> TRUE,
             S  |-> [S EXCEPT !.keys = [K1 EXCEPT ![key].values = SeqInsert(@, index + 1, v)]]]

\* insert a new value; the index must have been returned by find_value
insert_value(S, key, name, index) ==
    IF Len(name) > MAX_VALUE_LEN
    THEN [ok |-> FALSE, S |-> set_error(S, "NAME_TOO_LONG")]
    ELSE LET K1 == IF last_value(S.keys, key) + 1 = S.keys[key].nb_values
                   THEN grow_values(S.keys, key) ELSE S.keys
             v  == [name |-> name, type |-> REG_NONE, data |-> <<>>]
         IN [ok |-> TRUE,
             S  |-> [S EXCEPT !.keys = [K1 EXCEPT ![key].values = SeqInsert(@, index + 1, v)]]]

----------------------------------------------------------------------------
(* Name lookup *)

OBJ_OPENIF     == "OPENIF"
OBJ_OPENLINK   == "OPENLINK"
WINE_OBJ_WOW64 == "WOW64ATTR"

\* the result of a lookup: the object found (or NULL), what is left of the
\* name, the last error, and whether the lookup killed the process
Lookup(obj, name, err, dead) == [obj |-> obj, name |-> name, err |-> err, crashed |-> dead]

\* the end of the run of backslashes / of other characters that starts at
\* offset i of a path
skip_backslashes(path, i) ==
    IF \A j \in (i + 1)..Len(path) : path[j] = Backslash
    THEN IF i < Len(path) THEN Len(path) ELSE i
    ELSE (CHOOSE j \in (i + 1)..Len(path) :
              path[j] # Backslash /\ \A k \in (i + 1)..(j - 1) : path[k] = Backslash) - 1

skip_word(path, i) ==
    IF \A j \in (i + 1)..Len(path) : path[j] # Backslash
    THEN IF i < Len(path) THEN Len(path) ELSE i
    ELSE (CHOOSE j \in (i + 1)..Len(path) :
              path[j] = Backslash /\ \A k \in (i + 1)..(j - 1) : path[k] # Backslash) - 1

\* return the next token in a given path; a token is [pos, len] with pos the
\* offset of its first character, pos = -1 for the first call
get_path_token(path, token) ==
    IF token.pos = -1 /\ Len(path) > 0 /\ path[1] = Backslash
    THEN [ok |-> FALSE, pos |-> -1, len |-> 0]    \* STATUS_OBJECT_PATH_INVALID
    ELSE With(IF token.pos = -1 THEN 0 ELSE skip_backslashes(path, token.pos + token.len),
              LAMBDA start :
              [ok |-> TRUE, pos |-> start, len |-> skip_word(path, start) - start])

token_str(path, token) == SubSeq(path, token.pos + 1, token.pos + token.len)

\* return the wow64 variant of the key, or the key itself if none
find_wow64_subkey(K, key, name) ==
    IF KEY_WOW64 \notin K[key].flags THEN [key |-> key, crashed |-> FALSE]
    ELSE IF K[key].parent = NULL THEN [key |-> NULL, crashed |-> TRUE]
    ELSE IF KEY_WOWSHARE \in K[K[key].parent].flags
    THEN With(find_subkey(K, K[key].parent, wow6432node).key, LAMBDA wow64_key :
         IF wow64_key = NULL THEN [key |-> NULL, crashed |-> TRUE]
         ELSE With(find_subkey(K, wow64_key, K[key].name).key, LAMBDA subkey :
              [key |-> subkey, crashed |-> subkey = NULL]))   \* assert( key )
    ELSE IF ~is_wow6432node(name)
    THEN With(find_subkey(K, key, wow6432node).key, LAMBDA subkey :
         [key |-> subkey, crashed |-> subkey = NULL])         \* assert( key )
    ELSE [key |-> key, crashed |-> FALSE]

RECURSIVE key_lookup_name(_, _, _, _, _)
RECURSIVE lookup_loop(_, _, _, _, _)
RECURSIVE resolve_symlinks(_, _, _, _, _)

\* the first element of a name
first_element(name) ==
    IF memchrW(name, 1) = 0 THEN name ELSE SubSeq(name, 1, memchrW(name, 1) - 1)

\* the lookup_name of the root directory: it holds the root key only
directory_lookup_name(K, err, name, attr) ==
    With(memchrW(name, 1), LAMBDA p :
    With(first_element(name), LAMBDA tmp :
    IF name = <<>> THEN Lookup(NULL, name, err, FALSE)
    ELSE IF Len(K) >= 1 /\ Len(tmp) = Len(registryW)
                        /\ memicmpW(tmp, registryW, Len(registryW)) = 0
    THEN Lookup(1, IF p = 0 THEN <<>> ELSE SubSeq(name, p + 1, Len(name)), err, FALSE)
    ELSE IF tmp = <<>> THEN Lookup(NULL, name, "OBJECT_NAME_INVALID", FALSE)
    ELSE IF p # 0 THEN Lookup(NULL, name, "OBJECT_PATH_NOT_FOUND", FALSE)
    ELSE Lookup(NULL, name, err, FALSE)))

\* how lookup_named_object goes on with what lookup_name returned for parent
lookup_next(K, parent, r, attr) ==
    IF r.crashed THEN r
    ELSE IF r.obj # NULL THEN lookup_loop(K, r.err, r.obj, r.name, attr)
    ELSE IF r.err # "SUCCESS" THEN Lookup(NULL, r.name, r.err, FALSE)
    ELSE Lookup(parent, r.name, r.err, FALSE)

\* walk the name from a parent object as far as lookup_name finds objects
lookup_loop(K, err, parent, name, attr) ==
    With(IF parent = ROOT_DIRECTORY THEN directory_lookup_name(K, err, name, attr)
         ELSE key_lookup_name(K, err, parent, name, attr), LAMBDA r :
         lookup_next(K, parent, r, attr))

lookup_named_object(K, err, root, name, attr) ==
    IF root # NULL
    THEN IF name # <<>> /\ name[1] = Backslash
         THEN Lookup(NULL, name, "OBJECT_PATH_SYNTAX_BAD", FALSE)
         ELSE lookup_loop(K, "SUCCESS", root, name, attr)
    ELSE IF name = <<>> \/ name[1] # Backslash
         THEN Lookup(NULL, name, "OBJECT_PATH_SYNTAX_BAD", FALSE)
         ELSE With(Tail(name), LAMBDA rest :
                   lookup_loop(K, "SUCCESS", ROOT_DIRECTORY, rest, attr))

\* what open_named_object makes of the result of the lookup
open_result(r) ==
    IF r.crashed \/ r.obj = NULL THEN Lookup(NULL, r.name, r.err, r.crashed)
    ELSE IF r.name # <<>> \/ r.obj = ROOT_DIRECTORY
    THEN Lookup(NULL, r.name,
                IF r.name # <<>> THEN "OBJECT_NAME_NOT_FOUND" ELSE "OBJECT_TYPE_MISMATCH",
                FALSE)
    ELSE r

open_named_object(K, err, parent, name, attr) ==
    With(lookup_named_object(K, err, parent, name, attr), LAMBDA r : open_result(r))

\* follow a symlink and return the resolved key
follow_symlink(K, err, key, attr) ==
    With(find_value(K, key, symlink_value), LAMBDA f :
    IF ~f.found THEN Lookup(NULL, <<>>, err, FALSE)
    ELSE With(BytesToWide(K[key].values[f.index + 1].data), LAMBDA path :
         With((attr \cup {OBJ_OPENLINK}) \ {WINE_OBJ_WOW64}, LAMBDA attr2 :
         IF path # <<>> /\ path[1] = Backslash
         THEN open_named_object(K, err, NULL, path, attr2)
         ELSE open_named_object(K, err, K[key].parent, path, attr2))))

\* a variant of symlink_step that never counts its turns; the termination
\* of the lookup is tested against it
symlink_step_uncounted(K, err, found, attr, iteration) ==
    IF KEY_SYMLINK \notin K[found].flags
    THEN [pc |-> "done", found |-> found, iteration |-> iteration, err |-> err, crashed |-> FALSE]
    ELSE With(follow_symlink(K, err, found, attr), LAMBDA t :
         IF t.crashed
         THEN [pc |-> "fail", found |-> NULL, iteration |-> iteration, err |-> t.err,
               crashed |-> TRUE]
         ELSE IF t.obj = NULL
         THEN [pc |-> "done", found |-> found, iteration |-> iteration, err |-> t.err,
               crashed |-> FALSE]
         ELSE [pc |-> "loop", found |-> t.obj, iteration |-> iteration,
               err |-> t.err, crashed |-> FALSE])

\* one turn of the symlink loop of key_lookup_name: "loop" with the next key
\* and count, "done" with the key to go on with, or "fail"
symlink_step(K, err, found, attr, iteration) ==
    IF KEY_SYMLINK \notin K[found].flags
    THEN [pc |-> "done", found |-> found, iteration |-> iteration, err |-> err, crashed |-> FALSE]
    ELSE With(follow_symlink(K, err, found, attr), LAMBDA t :
         IF t.crashed
         THEN [pc |-> "fail", found |-> NULL, iteration |-> iteration, err |-> t.err,
               crashed |-> TRUE]
         ELSE IF t.obj = NULL
         THEN [pc |-> "done", found |-> found, iteration |-> iteration, err |-> t.err,
               crashed |-> FALSE]
         ELSE IF iteration > MAX_SYMLINK_ITERATIONS
         THEN [pc |-> "fail", found |-> NULL, iteration |-> iteration,
               err |-> "NAME_TOO_LONG", crashed |-> FALSE]
         ELSE [pc |-> "loop", found |-> t.obj, iteration |-> iteration + 1,
               err |-> t.err, crashed |-> FALSE])

resolve_symlinks(K, err, found, attr, iteration) ==
    With(symlink_step(K, err, found, attr, iteration), LAMBDA s :
    IF s.pc = "loop" THEN resolve_symlinks(K, s.err, s.found, attr, s.iteration)
    ELSE s)

\* what key_lookup_name returns once the symlinks of the found key are resolved
key_lookup_found(K, name, rest, s, attr) ==
    IF s.pc = "fail" THEN Lookup(NULL, name, s.err, s.crashed)
    ELSE IF WINE_OBJ_WOW64 \notin attr THEN Lookup(s.found, rest, s.err, FALSE)
    ELSE
    With(get_path_token(rest, [pos |-> -1, len |-> 0]), LAMBDA token :
    With(find_wow64_subkey(K, s.found, token_str(rest, token)), LAMBDA w :
    IF w.crashed THEN Lookup(NULL, rest, s.err, TRUE)
    ELSE IF is_wow6432node(K[w.key].name) /\ K[w.key].parent = NULL
    THEN Lookup(NULL, rest, s.err, TRUE)
    ELSE IF is_wow6432node(K[w.key].name)
            /\ KEY_WOWSHARE \in K[K[w.key].parent].flags /\ rest = <<>>
    THEN Lookup(K[w.key].parent, rest, s.err, FALSE)
    ELSE Lookup(w.key, rest, s.err, FALSE)))

\* a variant of key_lookup_name that compares the length in characters with
\* the limit in bytes; the limit on a path element is tested against it
key_lookup_name_bytes(K, err, key, name, attr) ==
    With(first_element(name), LAMBDA tmp :
    IF name = <<>> \/ tmp = <<>> THEN Lookup(NULL, name, err, FALSE)
    ELSE IF Len(tmp) > MAX_NAME_LEN * 2 THEN Lookup(NULL, name, "INVALID_PARAMETER", FALSE)
    ELSE IF is_wow6432node(K[key].name) /\ K[key].parent = NULL
    THEN Lookup(NULL, name, err, TRUE)             \* key->parent->flags of a NULL parent
    ELSE
    With(is_wow6432node(K[key].name) /\ KEY_WOWSHARE \in K[K[key].parent].flags
         /\ WINE_OBJ_WOW64 \in attr, LAMBDA shared :
    With(find_subkey(K, IF shared THEN K[key].parent ELSE key, tmp).key, LAMBDA found :
    IF found = NULL
    THEN Lookup(NULL, name,
                IF Len(tmp) < Len(name) THEN "OBJECT_NAME_NOT_FOUND" ELSE err, FALSE)
    ELSE
    With(IF OBJ_OPENLINK \notin attr THEN resolve_symlinks(K, err, found, attr, 0)
         ELSE [pc |-> "done", found |-> found, iteration |-> 0, err |-> err,
               crashed |-> FALSE], LAMBDA s :
    With(SubSeq(name, skip_backslashes(name, Len(tmp)) + 1, Len(name)), LAMBDA rest :
         key_lookup_found(K, name, rest, s, attr))))))

key_lookup_name(K, err, key, name, attr) ==
    With(first_element(name), LAMBDA tmp :
    IF name = <<>> \/ tmp = <<>> THEN Lookup(NULL, name, err, FALSE)
    ELSE IF Len(tmp) > MAX_NAME_LEN THEN Lookup(NULL, name, "INVALID_PARAMETER", FALSE)
    ELSE IF is_wow6432node(K[key].name) /\ K[key].parent = NULL
    THEN Lookup(NULL, name, err, TRUE)             \* key->parent->flags of a NULL parent
    ELSE
    With(is_wow6432node(K[key].name) /\ KEY_WOWSHARE \in K[K[key].parent].flags
         /\ WINE_OBJ_WOW64 \in attr, LAMBDA shared :
    With(find_subkey(K, IF shared THEN K[key].parent ELSE key, tmp).key, LAMBDA found :
    IF found = NULL
    THEN Lookup(NULL, name,
                IF Len(tmp) < Len(name) THEN "OBJECT_NAME_NOT_FOUND" ELSE err, FALSE)
    ELSE
    With(IF OBJ_OPENLINK \notin attr THEN resolve_symlinks(K, err, found, attr, 0)
         ELSE [pc |-> "done", found |-> found, iteration |-> 0, err |-> err,
               crashed |-> FALSE], LAMBDA s :
    With(SubSeq(name, skip_backslashes(name, Len(tmp)) + 1, Len(name)), LAMBDA rest :
         key_lookup_found(K, name, rest, s, attr))))))

----------------------------------------------------------------------------
(* Key creation *)

REG_OPTION_VOLATILE    == "OPTION_VOLATILE"
REG_OPTION_CREATE_LINK == "OPTION_CREATE_LINK"

\* create_named_object for a key: open the existing object or allocate a new
\* key object, identity Len(keys) + 1, and link it under the object the
\* lookup stopped at
create_named_object(S, parent, name, attributes) ==
    With(lookup_named_object(S.keys, S.err, parent, name, attributes), LAMBDA r :
    IF r.crashed THEN [key |-> NULL, S |-> abort(S)]
    ELSE IF r.obj = NULL THEN [key |-> NULL, S |-> set_error(S, r.err)]
    ELSE IF r.name = <<>>
    THEN IF OBJ_OPENIF \in attributes /\ r.obj # ROOT_DIRECTORY
         THEN [key |-> r.obj, S |-> set_error(S, "OBJECT_NAME_EXISTS")]
         ELSE [key |-> NULL,
               S |-> set_error(S, IF OBJ_OPENIF \in attributes
                                  THEN "OBJECT_TYPE_MISMATCH"
                                  ELSE "OBJECT_NAME_COLLISION")]
    ELSE With([clear_error(S) EXCEPT !.keys = Append(S.keys, alloc_object(r.name))],
              LAMBDA S1 :
         With(key_link_name(S1, Len(S.keys) + 1, r.name, r.obj), LAMBDA l :
         IF l.S.crashed THEN [key |-> NULL, S |-> abort(S)]
         ELSE IF ~l.ok
         THEN [key |-> NULL, S |-> [l.S EXCEPT !.keys = SubSeq(@, 1, Len(S.keys))]]
         ELSE [key |-> Len(S.keys) + 1, S |-> l.S])))

\* the fields create_key gives a key that did not already exist
init_key(K, key, class, options, now) ==
    [K EXCEPT ![key] =
        [@ EXCEPT !.class = class,
                  !.flags = (IF REG_OPTION_VOLATILE \in options
                             THEN {KEY_VOLATILE} ELSE {KEY_DIRTY})
                            \cup (IF REG_OPTION_CREATE_LINK \in options
                                  THEN {KEY_SYMLINK} ELSE {}),
                  !.subkeys = <<>>,
                  !.nb_subkeys = 0,
                  !.values = <<>>,
                  !.nb_values = 0,
                  !.modif = now,
                  !.notify_list = <<>>]]

\* create a subkey
create_key(S, parent, name, class, options, attributes) ==
    IF name = <<>>
    THEN [key |-> parent,
          S |-> IF parent = NULL THEN set_error(S, "OBJECT_PATH_SYNTAX_BAD") ELSE S]
    ELSE
    With(create_named_object(S, parent, name,
                             IF REG_OPTION_CREATE_LINK \notin options
                             THEN attributes \cup {OBJ_OPENIF} ELSE attributes), LAMBDA c :
    IF c.key = NULL \/ c.S.err = "OBJECT_NAME_EXISTS" THEN c
    ELSE
    With([c.S EXCEPT !.keys = init_key(@, c.key, class, options, S.current_time)],
         LAMBDA S1 :
    IF S1.keys[c.key].parent # NULL
       /\ KEY_VOLATILE \in S1.keys[S1.keys[c.key].parent].flags
       /\ REG_OPTION_VOLATILE \notin options
    THEN With(free_subkey(set_error(S1, "CHILD_MUST_BE_VOLATILE"), c.key), LAMBDA S2 :
              \* the last reference is released: the new object is destroyed
              [key |-> NULL, S |-> [S2 EXCEPT !.keys = SubSeq(@, 1, c.key - 1)]])
    ELSE [key |-> c.key, S |-> S1]))

\* recursively create a subkey (for internal use only)
RECURSIVE create_key_tokens(_, _, _, _)
create_key_tokens(S, key, name, token) ==
    IF token.len = 0 \/ S.crashed THEN [key |-> key, S |-> S]
    ELSE With(create_key(S, key, token_str(name, token), <<>>, {}, {OBJ_OPENIF}), LAMBDA c :
         IF c.key = NULL THEN [key |-> key, S |-> c.S]
         ELSE With(get_path_token(name, token), LAMBDA next :
                   create_key_tokens(c.S, c.key, name, next)))

create_key_recursive(S, key, name, modif) ==
    With(get_path_token(name, [pos |-> -1, len |-> 0]), LAMBDA token :
    IF ~token.ok THEN [key |-> NULL, S |-> set_error(S, "OBJECT_PATH_INVALID")]
    ELSE create_key_tokens(S, key, name, token))

----------------------------------------------------------------------------
(* Registry initialisation *)

PREFIX_UNKNOWN == "PREFIX_UNKNOWN"
PREFIX_32BIT   == "PREFIX_32BIT"
PREFIX_64BIT   == "PREFIX_64BIT"

\* the branches saved periodically: hklm, User\.Default, the current user;
\* the keys are those init_registry creates, in its order
save_branch_info == <<2, 4, 5>>

\* init_registry with no registry file on disk
init_registry(now) ==
    With(create_key(State(<<>>, <<>>, "SUCCESS", now), NULL, root_name, <<>>, {}, {}),
         LAMBDA root :
    With(create_key_recursive(root.S, root.key, HKLM, now), LAMBDA hklm :
    With(create_key_recursive(hklm.S, root.key, HKU_default, now), LAMBDA hku :
    With(create_key_recursive(hku.S, root.key, current_user_path, now), LAMBDA hkcu :
         hkcu.S))))

----------------------------------------------------------------------------
(* Value operations *)

\* set a key value
set_value(S, key, name, type, data) ==
    With(find_value(S.keys, key, name), LAMBDA f :
    IF f.found /\ S.keys[key].values[f.index + 1].type = type
       /\ Len(S.keys[key].values[f.index + 1].data) = Len(data)
       /\ S.keys[key].values[f.index + 1].data # <<>>   \* value->data is NULL when empty
       /\ S.keys[key].values[f.index + 1].data = data
    THEN S                                 \* "Skip setting"
    ELSE IF KEY_SYMLINK \in S.keys[key].flags
            /\ (type # REG_LINK \/ Len(name) # Len(symlink_value)
                \/ memicmpW(name, symlink_value, Len(name)) # 0)
    THEN set_error(S, "ACCESS_DENIED")
    ELSE With(IF f.found THEN [ok |-> TRUE, S |-> S]
              ELSE insert_value(S, key, name, f.index), LAMBDA ins :
         IF ~ins.ok THEN ins.S
         ELSE With([ins.S EXCEPT !.keys[key].values[f.index + 1].type = type,
                                 !.keys[key].values[f.index + 1].data = data], LAMBDA S1 :
              touch_key(S1, key, {REG_NOTIFY_CHANGE_LAST_SET}))))

\* a variant of get_value that returns the first value of the key once the
\* name is found; the round trip of a value is tested against it
get_value_first(S, key, name, max_size) ==
    With(find_value(S.keys, key, name), LAMBDA f :
    IF f.found
    THEN LET value == S.keys[key].values[1]
         IN [S |-> S, type |-> value.type, len |-> Len(value.data),
             data |-> SubSeq(value.data, 1, Min(Len(value.data), max_size))]
    ELSE [S |-> set_error(S, "OBJECT_NAME_NOT_FOUND"), type |-> -1, len |-> 0,
          data |-> <<>>])

\* get a key value: the type, the total length and the bytes that fit the reply
get_value(S, key, name, max_size) ==
    With(find_value(S.keys, key, name), LAMBDA f :
    IF f.found
    THEN LET value == S.keys[key].values[f.index + 1]
         IN [S |-> S, type |-> value.type, len |-> Len(value.data),
             data |-> SubSeq(value.data, 1, Min(Len(value.data), max_size))]
    ELSE [S |-> set_error(S, "OBJECT_NAME_NOT_FOUND"), type |-> -1, len |-> 0,
          data |-> <<>>])

\* enumerate a key value
enum_value(S, key, i, info_class, max_size) ==
    IF i < 0 \/ i > last_value(S.keys, key)
    THEN [S |-> set_error(S, "NO_MORE_ENTRIES"), type |-> 0, total |-> 0, data |-> <<>>]
    ELSE LET value == S.keys[key].values[i + 1]
             name  == WideToBytes(value.name)
             all   == CASE info_class = "KeyValueBasicInformation" -> name
                        [] info_class = "KeyValueFullInformation" -> name \o value.data
                        [] info_class = "KeyValuePartialInformation" -> value.data
                        [] OTHER -> <<>>
         IN IF info_class \notin {"KeyValueBasicInformation", "KeyValueFullInformation",
                                  "KeyValuePartialInformation"}
            THEN [S |-> set_error(S, "INVALID_PARAMETER"), type |-> value.type,
                  total |-> 0, data |-> <<>>]
            ELSE [S |-> S, type |-> value.type, total |-> Len(all),
                  data |-> SubSeq(all, 1, Min(Len(all), max_size))]

\* delete a value
delete_value(S, key, name) ==
    With(find_value(S.keys, key, name), LAMBDA f :
    IF ~f.found THEN set_error(S, "OBJECT_NAME_NOT_FOUND")
    ELSE With([S EXCEPT !.keys[key].values = SeqRemove(@, f.index + 1)], LAMBDA S0 :
         With(touch_key(S0, key, {REG_NOTIFY_CHANGE_LAST_SET}), LAMBDA S1 :
         LET nb == S1.keys[key].nb_values
             shrunk == IF nb - (nb \div 3) < MIN_VALUES THEN MIN_VALUES
                       ELSE nb - (nb \div 3)
         IN IF nb > MIN_VALUES /\ last_value(S1.keys, key) < nb \div 2
            THEN [S1 EXCEPT !.keys[key].nb_values = shrunk]
            ELSE S1)))

root_key == 1

\* does the walk k = k->parent from a key arrive at root_key?
RECURSIVE reaches_root_key(_, _)
reaches_root_key(K, k) ==
    IF k = NULL THEN FALSE
    ELSE IF k = root_key THEN TRUE
    ELSE reaches_root_key(K, K[k].parent)

\* query information about a subkey (index >= 0) or the key itself (-1)
enum_key(S, key, index, info_class) ==
    IF index # -1 /\ (index < 0 \/ index > last_subkey(S.keys, key))
    THEN [S |-> set_error(S, "NO_MORE_ENTRIES"), key |-> NULL]
    ELSE IF info_class \notin {"KeyBasicInformation", "KeyNodeInformation",
                               "KeyFullInformation", "KeyCachedInformation",
                               "KeyNameInformation"}
    THEN [S |-> set_error(S, "INVALID_PARAMETER"), key |-> NULL]
    ELSE LET k == IF index = -1 THEN key ELSE S.keys[key].subkeys[index + 1]
         IN IF info_class = "KeyNameInformation" /\ ~reaches_root_key(S.keys, k)
            THEN [S |-> abort(S), key |-> NULL]   \* k->parent walked through NULL
            ELSE [S |-> S, key |-> k]

----------------------------------------------------------------------------
(* Loading a registry file *)

(* A file is [header |-> is the first line "WINE REGISTRY Version 2",        *)
(* lines |-> the lines after it].  A line is one of                          *)
(*   [t |-> "key", name |-> the section name, mod |-> its time or 0]         *)
(*   [t |-> "value", name, type, data, ok |-> is the data well formed]       *)
(*   [t |-> "option", opt |-> "arch" | "time" | "class" | "link", val]       *)
(* with the names as parse_strW returns them and the class as quoted text.    *)

\* the string a quoted text stands for, with the terminating null parse_strW adds
parse_strW(text) == text \o <<0>>

\* return the length (in path elements) of name that is part of the key name
RECURSIVE get_prefix_len_walk(_, _, _, _)
get_prefix_len_walk(K, key, first, res) ==
    IF key = root_key THEN 0                      \* no matching name
    ELSE IF key = NULL THEN -2                    \* key->obj.name of a NULL key
    ELSE IF Len(first) = Len(K[key].name) /\ memicmpW(first, K[key].name, Len(first)) = 0
    THEN res
    ELSE get_prefix_len_walk(K, K[key].parent, first, res + 1)

get_prefix_len(K, key, name) ==
    With(first_element(name), LAMBDA first : get_prefix_len_walk(K, key, first, 1))

\* the section name with its first prefix_len path elements skipped, i
\* characters being consumed; left: the count that remained when the name ran out
RECURSIVE skip_prefix(_, _, _)
skip_prefix(name, i, prefix_len) ==
    IF prefix_len = 0 \/ i >= Len(name)
    THEN [rest |-> SubSeq(name, i + 1, Len(name)), left |-> prefix_len]
    ELSE skip_prefix(name, i + 1,
                     IF name[i + 1] = Backslash THEN prefix_len - 1 ELSE prefix_len)

\* load and create a key from the input file
load_key(S, base, name, prefix_len) ==
    With(skip_prefix(name, 0, prefix_len), LAMBDA sk :
    IF sk.rest = <<>>
    THEN IF sk.left > 1 THEN [key |-> NULL, S |-> S]     \* "Malformed key"
         ELSE [key |-> base, S |-> S]
    ELSE create_key_recursive(S, base, sk.rest, 0))

\* update the modification time of a key (and its parents) after it has been loaded
RECURSIVE update_key_time(_, _, _)
update_key_time(K, key, modif) ==
    IF key = NULL THEN K
    ELSE IF K[key].modif # 0 THEN K
    ELSE With([K EXCEPT ![key].modif = modif],
              LAMBDA K1 : update_key_time(K1, K1[key].parent, modif))

\* a variant of load_global_option that takes every tag as the type of the
\* prefix; the rule of the first tag is tested against it
load_global_option_last(S, ptype, line) ==
    IF line.opt # "arch" THEN [ok |-> TRUE, S |-> S, prefix_type |-> ptype]
    ELSE IF line.val \notin {PREFIX_32BIT, PREFIX_64BIT}
    THEN [ok |-> FALSE, S |-> set_error(S, "NOT_REGISTRY_FILE"), prefix_type |-> ptype]
    ELSE [ok |-> TRUE, S |-> S, prefix_type |-> line.val]

\* load a global option from the input file
load_global_option(S, ptype, line) ==
    IF line.opt # "arch" THEN [ok |-> TRUE, S |-> S, prefix_type |-> ptype]
    ELSE IF line.val \notin {PREFIX_32BIT, PREFIX_64BIT}
    THEN [ok |-> FALSE, S |-> set_error(S, "NOT_REGISTRY_FILE"), prefix_type |-> ptype]
    ELSE IF ptype = PREFIX_UNKNOWN THEN [ok |-> TRUE, S |-> S, prefix_type |-> line.val]
    ELSE IF line.val # ptype
    THEN [ok |-> FALSE, S |-> set_error(S, "NOT_REGISTRY_FILE"), prefix_type |-> ptype]
    ELSE [ok |-> TRUE, S |-> S, prefix_type |-> ptype]

\* load a key option from the input file
load_key_option(S, key, line) ==
    CASE line.opt = "time"  -> [S EXCEPT !.keys = update_key_time(@, key, line.val)]
      [] line.opt = "class" -> [S EXCEPT !.keys[key].class = parse_strW(line.val)]
      [] line.opt = "link"  -> [S EXCEPT !.keys[key].flags = @ \cup {KEY_SYMLINK}]
      [] OTHER -> S

\* parse a value name and create the corresponding value
parse_value_name(S, key, name) ==
    With(find_value(S.keys, key, name), LAMBDA f :
    IF f.found THEN [ok |-> TRUE, index |-> f.index, S |-> S]
    ELSE With(insert_value(S, key, name, f.index), LAMBDA ins :
              [ok |-> ins.ok, index |-> f.index, S |-> ins.S]))

\* A value line written by dump_value is kept as text:
\*   [t |-> "value", at |-> is the name written as @, qname |-> the quoted
\*    name, tag |-> the data type tag, arg |-> the number inside "str(x):" or
\*    "hex(x):", body |-> the text after the tag]
\* The body is the quoted text for a string, the hexadecimal digits for a
\* dword and the list of two-digit bytes for hex data; a digit is 0..15.

\* the number a string of hexadecimal digits stands for, by bytes from the
\* lowest: what strtoul( buffer, NULL, 16 ) leaves in a 32-bit dw
strtoul_bytes(digits) ==
    With([i \in 1..8 |-> IF i + Len(digits) > 8 THEN digits[i + Len(digits) - 8] ELSE 0],
         LAMBDA d : [i \in 1..4 |-> 16 * d[9 - 2 * i] + d[10 - 2 * i]])

RECURSIVE strtoul(_)
strtoul(digits) ==
    IF digits = <<>> THEN 0
    ELSE 16 * strtoul(SubSeq(digits, 1, Len(digits) - 1)) + digits[Len(digits)]

\* parse a comma-separated list of hex bytes
parse_hex(body) ==
    IF \E i \in 1..Len(body) : body[i] = <<>> \/ Len(body[i]) > 7 \/ strtoul(body[i]) > 255
    THEN [ok |-> FALSE, data |-> <<>>]
    ELSE [ok |-> TRUE, data |-> [i \in 1..Len(body) |-> strtoul(body[i])]]

\* convert a data type tag to a value type; res = 0: the tag is not known
get_data_type(line) ==
    CASE line.tag = "quote" -> [res |-> 1, type |-> REG_SZ, parse_type |-> REG_SZ]
      [] line.tag = "str:"  -> [res |-> 5, type |-> REG_SZ, parse_type |-> REG_SZ]
      [] line.tag = "str(" /\ line.arg = 2 ->
             [res |-> 8, type |-> REG_EXPAND_SZ, parse_type |-> REG_SZ]
      [] line.tag = "str(" /\ line.arg = 7 ->
             [res |-> 8, type |-> REG_MULTI_SZ, parse_type |-> REG_SZ]
      [] line.tag = "hex:"   -> [res |-> 4, type |-> REG_BINARY, parse_type |-> REG_BINARY]
      [] line.tag = "dword:" -> [res |-> 6, type |-> REG_DWORD, parse_type |-> REG_DWORD]
      [] line.tag = "hex("   -> [res |-> 7, type |-> line.arg, parse_type |-> REG_BINARY]
      [] OTHER -> [res |-> 0, type |-> REG_NONE, parse_type |-> REG_NONE]

\* the name, type and data that load_value reads from a line of text
parse_value_line(line) ==
    With(get_data_type(line), LAMBDA dt :
    With(IF line.at THEN <<>>
         ELSE SubSeq(parse_strW(line.qname), 1, Len(line.qname)), LAMBDA name :
    IF dt.res = 0 THEN [name |-> name, type |-> REG_NONE, data |-> <<>>, ok |-> FALSE]
    ELSE IF dt.parse_type = REG_SZ
    THEN [name |-> name, type |-> dt.type,
          data |-> WideToBytes(parse_strW(line.body)), ok |-> TRUE]
    ELSE IF dt.parse_type = REG_DWORD
    THEN [name |-> name, type |-> dt.type, data |-> strtoul_bytes(line.body), ok |-> TRUE]
    ELSE With(parse_hex(line.body), LAMBDA h :
              [name |-> name, type |-> dt.type, data |-> h.data, ok |-> h.ok])))

\* load a value from the input file
load_value(S, key, text) ==
    With(IF "tag" \in DOMAIN text THEN parse_value_line(text) ELSE text, LAMBDA line :
    With(parse_value_name(S, key, line.name), LAMBDA pv :
    IF ~pv.ok THEN pv.S
    ELSE IF ~line.ok                                   \* "Malformed value"
    THEN [pv.S EXCEPT !.keys[key].values[pv.index + 1].type = REG_NONE,
                      !.keys[key].values[pv.index + 1].data = <<>>]
    ELSE [pv.S EXCEPT !.keys[key].values[pv.index + 1].type = line.type,
                      !.keys[key].values[pv.index + 1].data = line.data]))

\* one line of the input file; A is the state of the loop of load_keys: the
\* server state, the current subkey, the prefix length, prefix_type, modif
load_line(A, key, line) ==
    CASE line.t = "key" ->
           With(IF A.prefix_len = -1 THEN get_prefix_len(A.S.keys, key, line.name)
                ELSE A.prefix_len, LAMBDA plen :
           IF plen = -2 THEN [A EXCEPT !.S = abort(A.S)]
           ELSE With(IF A.subkey # NULL
                     THEN [A.S EXCEPT !.keys = update_key_time(@, A.subkey, A.modif)]
                     ELSE A.S, LAMBDA S1 :
                With(load_key(S1, key, line.name, plen), LAMBDA lkey :
                [A EXCEPT !.S = lkey.S, !.subkey = lkey.key, !.prefix_len = plen,
                          !.modif = IF line.mod # 0 THEN line.mod
                                    ELSE A.S.current_time])))
      [] line.t = "value" ->
           IF A.subkey # NULL
           THEN With(load_value(A.S, A.subkey, line), LAMBDA S1 : [A EXCEPT !.S = S1])
           ELSE A
      [] line.t = "option" ->
           IF A.subkey # NULL
           THEN With(load_key_option(A.S, A.subkey, line), LAMBDA S1 : [A EXCEPT !.S = S1])
           ELSE With(load_global_option(A.S, A.prefix_type, line), LAMBDA g :
                     [A EXCEPT !.S = g.S, !.prefix_type = g.prefix_type, !.stop = ~g.ok])
      [] OTHER -> A

RECURSIVE load_lines(_, _, _, _)
load_lines(A, key, lines, i) ==
    IF i > Len(lines) \/ A.S.crashed \/ A.stop THEN A
    ELSE With(load_line(A, key, lines[i]), LAMBDA A1 : load_lines(A1, key, lines, i + 1))

\* load all the keys from the input file
load_keys(S, ptype, key, file, prefix_len) ==
    IF ~file.header
    THEN [S |-> set_error(S, "NOT_REGISTRY_FILE"), prefix_type |-> ptype]
    ELSE With(load_lines([S |-> S, subkey |-> NULL, prefix_len |-> prefix_len,
                          prefix_type |-> ptype, stop |-> FALSE,
                          modif |-> S.current_time],
                         key, file.lines, 1), LAMBDA A :
         [S |-> IF A.subkey # NULL /\ ~A.S.crashed
                THEN [A.S EXCEPT !.keys = update_key_time(@, A.subkey, A.modif)]
                ELSE A.S,
          prefix_type |-> A.prefix_type])

----------------------------------------------------------------------------
(* Saving *)

\* a variant of save_branch that cleans the branch whether or not the file
\* was written; the retry after a failed save is tested against it
save_branch_forget(S, key, written) ==
    IF KEY_DIRTY \notin S.keys[key].flags THEN [ret |-> 1, opened |-> FALSE, S |-> S]
    ELSE [ret |-> 1, opened |-> TRUE, S |-> [S EXCEPT !.keys = make_clean(@, key)]]

\* save a registry branch to a file; written: did the write, close and rename
\* of the file succeed
save_branch(S, key, written) ==
    IF KEY_DIRTY \notin S.keys[key].flags THEN [ret |-> 1, opened |-> FALSE, S |-> S]
    ELSE IF written
    THEN [ret |-> 1, opened |-> TRUE, S |-> [S EXCEPT !.keys = make_clean(@, key)]]
    ELSE [ret |-> 0, opened |-> TRUE, S |-> S]

\* The destination of a save is [kind |-> "missing", "regular", "symlink" or
\* "other" (a device, a fifo), nlink |-> its number of hard links, writable
\* |-> open( path, O_WRONLY ) succeeds (for a symlink: on the file it names)].
\* io tells how the system calls end: taken |-> the temporary names that
\* exist already, create |-> a temporary file can be created, and whether
\* fdopen, fclose and rename succeed.  The result tells what was done to the
\* files; tmp is the counter in the name of the temporary file, -1 for none.
no_file_effect ==
    [ret |-> 0, truncated |-> FALSE, written |-> "none", tmp |-> -1,
     renamed |-> FALSE, unlinked |-> FALSE]

\* a variant of save_file that writes in place when the destination is a
\* regular file with one link and through a temporary file otherwise; the
\* choice between the two ways of writing is tested against it
save_file_swapped(dest, io) ==
    IF dest.writable /\ dest.kind = "regular" /\ dest.nlink = 1
    THEN IF ~io.fdopen THEN [no_file_effect EXCEPT !.truncated = TRUE]
         ELSE [no_file_effect EXCEPT !.truncated = TRUE, !.written = "dest",
                                     !.ret = IF io.fclose THEN 1 ELSE 0]
    ELSE IF ~io.create THEN no_file_effect
    ELSE IF ~io.fdopen THEN [no_file_effect EXCEPT !.tmp = io.taken, !.unlinked = TRUE]
    ELSE With(io.fclose /\ io.rename, LAMBDA ret :
         [no_file_effect EXCEPT !.tmp = io.taken, !.written = "tmp",
                                !.renamed = ret, !.unlinked = ~ret,
                                !.ret = IF ret THEN 1 ELSE 0])

\* a variant of save_file that writes every regular file in place, whatever
\* its number of links; the condition of the write in place is tested
\* against it
save_file_regular(dest, io) ==
    IF dest.writable /\ dest.kind = "regular"
    THEN IF ~io.fdopen THEN [no_file_effect EXCEPT !.truncated = TRUE]
         ELSE [no_file_effect EXCEPT !.truncated = TRUE, !.written = "dest",
                                     !.ret = IF io.fclose THEN 1 ELSE 0]
    ELSE IF ~io.create THEN no_file_effect
    ELSE IF ~io.fdopen THEN [no_file_effect EXCEPT !.tmp = io.taken, !.unlinked = TRUE]
    ELSE With(io.fclose /\ io.rename, LAMBDA ret :
         [no_file_effect EXCEPT !.tmp = io.taken, !.written = "tmp",
                                !.renamed = ret, !.unlinked = ~ret,
                                !.ret = IF ret THEN 1 ELSE 0])

\* the file operations of save_branch on the file of a dirty branch
save_file(dest, io) ==
    \* if file is not a regular file or has multiple links or is accessed
    \* via symbolic links, write directly into it; otherwise use a temp file
    IF dest.writable /\ (dest.kind # "regular" \/ dest.nlink > 1)
    THEN IF ~io.fdopen THEN [no_file_effect EXCEPT !.truncated = TRUE]
         ELSE [no_file_effect EXCEPT !.truncated = TRUE, !.written = "dest",
                                     !.ret = IF io.fclose THEN 1 ELSE 0]
    \* create a temp file in the same directory
    ELSE IF ~io.create THEN no_file_effect
    ELSE IF ~io.fdopen THEN [no_file_effect EXCEPT !.tmp = io.taken, !.unlinked = TRUE]
    ELSE With(io.fclose /\ io.rename, LAMBDA ret :      \* renamed if written
         [no_file_effect EXCEPT !.tmp = io.taken, !.written = "tmp",
                                !.renamed = ret, !.unlinked = ~ret,
                                !.ret = IF ret THEN 1 ELSE 0])

RECURSIVE save_branches(_, _, _)
save_branches(S, written, i) ==
    IF i > Len(save_branch_info) THEN S
    ELSE With(save_branch(S, save_branch_info[i], written[i]).S,
              LAMBDA S1 : save_branches(S1, written, i + 1))

----------------------------------------------------------------------------
(* Saving to text *)

\* the text of a string: its characters, escaped, without a terminating null
dump_strW(str) ==
    IF str # <<>> /\ str[Len(str)] = 0 THEN SubSeq(str, 1, Len(str) - 1) ELSE str

\* the two hexadecimal digits of a byte, "%02x"
Hex02(byte) == <<byte \div 16, byte % 16>>

\* dump the full path of a key
RECURSIVE dump_path(_, _, _)
dump_path(K, key, base) ==
    IF K[key].parent # NULL /\ K[key].parent # base
    THEN dump_path(K, K[key].parent, base) \o <<Backslash>> \o dump_strW(K[key].name)
    ELSE dump_strW(K[key].name)

\* a variant of dump_value that writes every string type as a quoted string,
\* terminated or not; the round trip of the values is tested against it
dump_value_quoted(value) ==
    With([t |-> "value", at |-> value.name = <<>>, qname |-> dump_strW(value.name)],
         LAMBDA name :
    IF value.type \in {REG_SZ, REG_EXPAND_SZ, REG_MULTI_SZ}
    THEN name @@ [tag |-> IF value.type # REG_SZ THEN "str(" ELSE "quote",
                  arg |-> value.type, body |-> dump_strW(BytesToWide(value.data))]
    ELSE IF value.type = REG_DWORD /\ Len(value.data) = 4
    THEN name @@ [tag |-> "dword:", arg |-> 0,
                  body |-> Hex02(value.data[4]) \o Hex02(value.data[3])
                           \o Hex02(value.data[2]) \o Hex02(value.data[1])]
    ELSE name @@ [tag |-> IF value.type = REG_BINARY THEN "hex:" ELSE "hex(",
                  arg |-> value.type,
                  body |-> [i \in 1..Len(value.data) |-> Hex02(value.data[i])]])

\* dump a value to a text file
dump_value(value) ==
    With([t |-> "value", at |-> value.name = <<>>, qname |-> dump_strW(value.name)],
         LAMBDA name :
    IF /\ value.type \in {REG_SZ, REG_EXPAND_SZ, REG_MULTI_SZ}
       \* only output properly terminated strings in string format
       /\ Len(value.data) >= 2
       /\ Len(value.data) % 2 = 0
       /\ BytesToWide(value.data)[Len(value.data) \div 2] = 0
    THEN name @@ [tag |-> IF value.type # REG_SZ THEN "str(" ELSE "quote",
                  arg |-> value.type, body |-> dump_strW(BytesToWide(value.data))]
    ELSE IF value.type = REG_DWORD /\ Len(value.data) = 4
    THEN name @@ [tag |-> "dword:", arg |-> 0,
                  body |-> Hex02(value.data[4]) \o Hex02(value.data[3])
                           \o Hex02(value.data[2]) \o Hex02(value.data[1])]
    ELSE name @@ [tag |-> IF value.type = REG_BINARY THEN "hex:" ELSE "hex(",
                  arg |-> value.type,
                  body |-> [i \in 1..Len(value.data) |-> Hex02(value.data[i])]])

\* a variant of save_subkeys that writes the volatile keys too; the absence
\* of volatile keys from the files is tested against it
RECURSIVE save_subkeys_all(_, _, _)
save_subkeys_all(K, key, base) ==
    LET section ==
            IF \/ last_value(K, key) >= 0 \/ last_subkey(K, key) = -1
               \/ K[key].class # <<>> \/ KEY_SYMLINK \in K[key].flags
            THEN << [t |-> "key", name |-> IF key # base THEN dump_path(K, key, base)
                                            ELSE <<>>,
                     mod |-> K[key].modif],
                    [t |-> "option", opt |-> "time", val |-> K[key].modif] >>
                 \o (IF K[key].class # <<>>
                     THEN << [t |-> "option", opt |-> "class",
                              val |-> dump_strW(K[key].class)] >>
                     ELSE <<>>)
                 \o (IF KEY_SYMLINK \in K[key].flags
                     THEN << [t |-> "option", opt |-> "link", val |-> 0] >> ELSE <<>>)
                 \o [i \in 1..Len(K[key].values) |-> dump_value(K[key].values[i])]
            ELSE <<>>
        RECURSIVE children(_)
        children(i) ==
            IF i > Len(K[key].subkeys) THEN <<>>
            ELSE save_subkeys_all(K, K[key].subkeys[i], base) \o children(i + 1)
    IN section \o children(1)

\* save a registry and all its subkeys to a text file: the lines written.
\* The clock of the model counts whole seconds from 1970, so that the time
\* of the section line and of #time are the same number.
RECURSIVE save_subkeys(_, _, _)
save_subkeys(K, key, base) ==
    IF KEY_VOLATILE \in K[key].flags THEN <<>>
    ELSE
    LET \* save key if it has either some values or no subkeys, or needs special options
        section ==
            IF \/ last_value(K, key) >= 0 \/ last_subkey(K, key) = -1
               \/ K[key].class # <<>> \/ KEY_SYMLINK \in K[key].flags
            THEN << [t |-> "key", name |-> IF key # base THEN dump_path(K, key, base)
                                            ELSE <<>>,
                     mod |-> K[key].modif],
                    [t |-> "option", opt |-> "time", val |-> K[key].modif] >>
                 \o (IF K[key].class # <<>>
                     THEN << [t |-> "option", opt |-> "class",
                              val |-> dump_strW(K[key].class)] >>
                     ELSE <<>>)
                 \o (IF KEY_SYMLINK \in K[key].flags
                     THEN << [t |-> "option", opt |-> "link", val |-> 0] >> ELSE <<>>)
                 \o [i \in 1..Len(K[key].values) |-> dump_value(K[key].values[i])]
            ELSE <<>>
        RECURSIVE children(_)
        children(i) ==
            IF i > Len(K[key].subkeys) THEN <<>>
            ELSE save_subkeys(K, K[key].subkeys[i], base) \o children(i + 1)
    IN section \o children(1)

\* save a registry branch to a file: the file written
save_all_subkeys(K, ptype, key) ==
    [header |-> TRUE,
     lines |-> (IF ptype = PREFIX_UNKNOWN THEN <<>>
                ELSE << [t |-> "option", opt |-> "arch", val |-> ptype] >>)
               \o save_subkeys(K, key, key)]

----------------------------------------------------------------------------
(* Inputs of the requests *)

name_a  == <<97>>             \* "a"
name_B  == <<66>>             \* "B"
name_AB == <<65, 66>>         \* "AB"
name_v  == <<118>>            \* "v"

ValueNames == {name_v, symlink_value}
ValueTypes == {REG_SZ, REG_LINK}
Payloads == {<<>>, <<1, 0>>}

\* registry files: no header; [AB] "v"=...; [a] #link "v"=...; #arch=win64 [a]
file_bad == [header |-> FALSE, lines |-> <<>>]
file_AB ==
    [header |-> TRUE,
     lines |-> << [t |-> "key", name |-> name_AB, mod |-> 0],
                  [t |-> "value", name |-> name_v, type |-> REG_SZ,
                   data |-> <<1, 0>>, ok |-> TRUE] >>]
file_link ==
    [header |-> TRUE,
     lines |-> << [t |-> "key", name |-> name_a, mod |-> 0],
                  [t |-> "option", opt |-> "link", val |-> 0],
                  [t |-> "value", name |-> name_v, type |-> REG_SZ,
                   data |-> <<1, 0>>, ok |-> TRUE] >>]
file_arch ==
    [header |-> TRUE,
     lines |-> << [t |-> "option", opt |-> "arch", val |-> PREFIX_64BIT],
                  [t |-> "key", name |-> name_a, mod |-> 0] >>]

\* the keys the client holds a handle to: Machine and the keys it created
Handles == {k \in 1..Len(keys) : k = 2 \/ k > 5}

RECURSIVE TotalValues(_)
TotalValues(K) == IF K = <<>> THEN 0 ELSE Len(K[Len(K)].values) + TotalValues(SubSeq(K, 1, Len(K) - 1))

RECURSIVE TotalNotify(_)
TotalNotify(K) ==
    IF K = <<>> THEN 0 ELSE Len(K[Len(K)].notify_list) + TotalNotify(SubSeq(K, 1, Len(K) - 1))

----------------------------------------------------------------------------
(* Requests *)

\* the state a handler starts from, and the reply every handler starts with
Start == State(keys, events, "SUCCESS", current_time)

Reply(op, status) ==
    [op |-> op, status |-> status, key |-> NULL, created |-> 0,
     type |-> 0, total |-> 0, data |-> <<>>]

\* the end of a request: the new server state and the reply sent, or the
\* death of the process
Finish(S, rep) ==
    IF S.crashed
    THEN /\ crashed' = TRUE
         /\ reply' = Reply(rep.op, "CRASH")
         /\ UNCHANGED <<keys, events>>
    ELSE /\ keys' = S.keys
         /\ events' = S.events
         /\ reply' = rep
         /\ UNCHANGED crashed

\* the handle table: handle k is the first handle on key k, handle
\* k + SecondHandle a second one on the same key
SecondHandle == 100
KeyOf(handle) == IF handle > SecondHandle THEN handle - SecondHandle ELSE handle

\* get the registry key corresponding to an hkey handle
get_hkey_obj(S, hkey) ==
    IF KEY_DELETED \in S.keys[KeyOf(hkey)].flags
    THEN [key |-> NULL, S |-> set_error(S, "KEY_DELETED")]
    ELSE [key |-> KeyOf(hkey), S |-> S]

\* create a registry key
CreateKeyReq(rootdir, name, options) ==
    /\ ~crashed
    /\ \E p \in {get_hkey_obj(Start, rootdir)} :
          IF p.key = NULL
          THEN Finish(p.S, Reply("create_key", p.S.err))
          ELSE \E c \in {create_key(p.S, p.key, name, <<>>, options, {})} :
                  Finish(c.S, [Reply("create_key",
                                     IF c.key # NULL /\ c.S.err = "OBJECT_NAME_EXISTS"
                                     THEN "SUCCESS" ELSE c.S.err)
                               EXCEPT !.key = c.key,
                                      !.created = IF c.key # NULL /\ c.S.err = "SUCCESS"
                                                  THEN 1 ELSE 0])
    /\ UNCHANGED <<current_time, prefix_type, lk, closed, save_timeout_user>>

\* a variant of open_key that counts the length of the path in characters;
\* the limit on the length of a path is tested against it
OpenKeyReq_chars(parent, name, attributes) ==
    /\ ~crashed
    /\ IF Len(name) >= 65534
       THEN Finish(Start, Reply("open_key", "OBJECT_NAME_INVALID"))
       ELSE \E p \in {get_hkey_obj(Start, parent)} :
               IF p.key = NULL
               THEN Finish(p.S, Reply("open_key", p.S.err))
               ELSE \E o \in {open_named_object(keys, "SUCCESS", p.key, name, attributes)} :
                       Finish([p.S EXCEPT !.crashed = o.crashed],
                              [Reply("open_key", o.err) EXCEPT !.key = o.obj])
    /\ UNCHANGED <<current_time, prefix_type, lk, closed, save_timeout_user>>

\* open a registry key
OpenKeyReq(parent, name, attributes) ==
    /\ ~crashed
    /\ IF 2 * Len(name) >= 65534
       THEN Finish(Start, Reply("open_key", "OBJECT_NAME_INVALID"))
       ELSE \E p \in {get_hkey_obj(Start, parent)} :
               IF p.key = NULL
               THEN Finish(p.S, Reply("open_key", p.S.err))
               ELSE \E o \in {open_named_object(keys, "SUCCESS", p.key, name, attributes)} :
                       Finish([p.S EXCEPT !.crashed = o.crashed],
                              [Reply("open_key", o.err) EXCEPT !.key = o.obj])
    /\ UNCHANGED <<current_time, prefix_type, lk, closed, save_timeout_user>>

\* delete a registry key
DeleteKeyReq(hkey) ==
    /\ ~crashed
    /\ \E k \in {get_hkey_obj(Start, hkey)} :
          IF k.key = NULL
          THEN Finish(k.S, Reply("delete_key", k.S.err))
          ELSE \E d \in {delete_key(k.S, k.key, FALSE)} :
                  Finish(d.S, Reply("delete_key", d.S.err))
    /\ UNCHANGED <<current_time, prefix_type, lk, closed, save_timeout_user>>

\* flush a registry key
FlushKeyReq(hkey) ==
    /\ ~crashed
    /\ \E k \in {get_hkey_obj(Start, hkey)} : Finish(k.S, Reply("flush_key", k.S.err))
    /\ UNCHANGED <<current_time, prefix_type, lk, closed, save_timeout_user>>

\* enumerate registry subkeys
EnumKeyReq(hkey, index, info_class) ==
    /\ ~crashed
    /\ \E k \in {get_hkey_obj(Start, hkey)} :
          IF k.key = NULL
          THEN Finish(k.S, Reply("enum_key", k.S.err))
          ELSE \E e \in {enum_key(k.S, k.key, index, info_class)} :
                  Finish(e.S, [Reply("enum_key", e.S.err) EXCEPT !.key = e.key])
    /\ UNCHANGED <<current_time, prefix_type, lk, closed, save_timeout_user>>

\* set a value of a registry key
SetKeyValueReq(hkey, name, type, data) ==
    /\ ~crashed
    /\ \E k \in {get_hkey_obj(Start, hkey)} :
          IF k.key = NULL
          THEN Finish(k.S, Reply("set_key_value", k.S.err))
          ELSE \E S1 \in {set_value(k.S, k.key, name, type, data)} :
                  Finish(S1, Reply("set_key_value", S1.err))
    /\ UNCHANGED <<current_time, prefix_type, lk, closed, save_timeout_user>>

\* retrieve the value of a registry key
GetKeyValueReq(hkey, name, max_size) ==
    /\ ~crashed
    /\ \E k \in {get_hkey_obj(Start, hkey)} :
          IF k.key = NULL
          THEN Finish(k.S, Reply("get_key_value", k.S.err))
          ELSE \E g \in {get_value(k.S, k.key, name, max_size)} :
                  Finish(g.S, [Reply("get_key_value", g.S.err) EXCEPT
                                  !.type = g.type, !.total = g.len, !.data = g.data])
    /\ UNCHANGED <<current_time, prefix_type, lk, closed, save_timeout_user>>

\* enumerate the value of a registry key
EnumKeyValueReq(hkey, index, info_class, max_size) ==
    /\ ~crashed
    /\ \E k \in {get_hkey_obj(Start, hkey)} :
          IF k.key = NULL
          THEN Finish(k.S, Reply("enum_key_value", k.S.err))
          ELSE \E e \in {enum_value(k.S, k.key, index, info_class, max_size)} :
                  Finish(e.S, [Reply("enum_key_value", e.S.err) EXCEPT
                                  !.type = e.type, !.total = e.total, !.data = e.data])
    /\ UNCHANGED <<current_time, prefix_type, lk, closed, save_timeout_user>>

\* delete a value of a registry key
DeleteKeyValueReq(hkey, name) ==
    /\ ~crashed
    /\ \E k \in {get_hkey_obj(Start, hkey)} :
          IF k.key = NULL
          THEN Finish(k.S, Reply("delete_key_value", k.S.err))
          ELSE \E S1 \in {delete_value(k.S, k.key, name)} :
                  Finish(S1, Reply("delete_key_value", S1.err))
    /\ UNCHANGED <<current_time, prefix_type, lk, closed, save_timeout_user>>

\* load a registry branch from a file
LoadRegistryReq(rootdir, name, file, privileged) ==
    /\ ~crashed
    /\ IF ~privileged
       THEN /\ Finish(Start, Reply("load_registry", "PRIVILEGE_NOT_HELD"))
            /\ UNCHANGED prefix_type
       ELSE \* the parent comes from get_handle_obj: no KEY_DELETED test
            \E c \in {create_key(Start, KeyOf(rootdir), name, <<>>, {}, {})} :
               IF c.key = NULL \/ c.S.crashed
               THEN /\ Finish(c.S, Reply("load_registry", c.S.err))
                    /\ UNCHANGED prefix_type
               ELSE \E l \in {load_keys(c.S, prefix_type, c.key, file, -1)} :
                       /\ Finish(l.S, Reply("load_registry", l.S.err))
                       /\ prefix_type' = IF l.S.crashed THEN prefix_type ELSE l.prefix_type
    /\ UNCHANGED <<current_time, lk, closed, save_timeout_user>>

\* unload a registry branch
UnloadRegistryReq(hkey, privileged) ==
    /\ ~crashed
    /\ IF ~privileged
       THEN Finish(Start, Reply("unload_registry", "PRIVILEGE_NOT_HELD"))
       ELSE \E k \in {get_hkey_obj(Start, hkey)} :
               IF k.key = NULL
               THEN Finish(k.S, Reply("unload_registry", k.S.err))
               ELSE \E d \in {delete_key(k.S, k.key, TRUE)} :
                       Finish(d.S, Reply("unload_registry", d.S.err))
    /\ UNCHANGED <<current_time, prefix_type, lk, closed, save_timeout_user>>

\* save a registry branch to a file
SaveRegistryReq(hkey, privileged) ==
    /\ ~crashed
    /\ IF ~privileged
       THEN Finish(Start, Reply("save_registry", "PRIVILEGE_NOT_HELD"))
       ELSE \E k \in {get_hkey_obj(Start, hkey)} :
               Finish(k.S, Reply("save_registry", k.S.err))
    /\ UNCHANGED <<current_time, prefix_type, lk, closed, save_timeout_user>>

\* add a registry key change notification
SetRegistryNotificationReq(hkey, event, subtree, filter) ==
    /\ ~crashed
    /\ \E k \in {get_hkey_obj(Start, hkey)} :
          IF k.key = NULL
          THEN Finish(k.S, Reply("set_registry_notification", k.S.err))
          ELSE \E i \in {find_notify(keys, k.key, 1, hkey)} :
                  Finish([k.S EXCEPT
                             !.keys = IF i # 0
                                      THEN [keys EXCEPT ![k.key].notify_list[i].event = event]
                                      ELSE [keys EXCEPT ![k.key].notify_list =
                                               <<[event |-> event, subtree |-> subtree,
                                                  filter |-> filter, hkey |-> hkey,
                                                  process |-> 1]>> \o @],
                             !.events = [@ EXCEPT ![event] = FALSE],   \* reset_event
                             !.err = "PENDING"],
                         Reply("set_registry_notification", "PENDING"))
    /\ UNCHANGED <<current_time, prefix_type, lk, closed, save_timeout_user>>

\* periodic saving of the registry; written[i]: the file of branch i can be written
PeriodicSave(written) ==
    /\ ~crashed
    /\ keys' = save_branches(Start, written, 1).keys
    /\ UNCHANGED <<current_time, prefix_type, events, reply, crashed, lk, closed,
                   save_timeout_user>>

\* the server clock advances between two requests
Tick ==
    /\ ~crashed
    /\ current_time < MaxTime
    /\ current_time' = current_time + 1
    /\ UNCHANGED <<keys, prefix_type, events, reply, crashed, lk, closed, save_timeout_user>>

----------------------------------------------------------------------------
(* The specifications *)

\* no lookup under way
lk_idle == [pc |-> "idle", found |-> NULL, iteration |-> 0, err |-> "SUCCESS",
            crashed |-> FALSE, attr |-> {}]

Init ==
    /\ current_time = 1
    /\ keys = init_registry(1).keys
    /\ prefix_type = PREFIX_32BIT
    /\ events = <<FALSE>>
    /\ reply = Reply("init_registry", "SUCCESS")
    /\ crashed = FALSE
    /\ lk = lk_idle
    /\ closed = {}
    /\ save_timeout_user = "pending"

\* the requests that change the tree
Next ==
    \/ \E h \in Handles, n \in {name_a, name_B}, o \in {{}, {REG_OPTION_VOLATILE}} :
          CreateKeyReq(h, n, o) /\ Len(keys') <= MaxKeys
    \/ \E h \in Handles : DeleteKeyReq(h)
    \/ \E h \in Handles, f \in {file_bad, file_AB} :
          LoadRegistryReq(h, name_a, f, TRUE) /\ Len(keys') <= MaxKeys
    \/ \E h \in Handles : UnloadRegistryReq(h, TRUE)
    \/ PeriodicSave(<<TRUE, TRUE, TRUE>>)

Spec == Init /\ [][Next]_vars

\* the requests on the values of Machine and of one key under it
ValueNext ==
    \/ \E o \in {{}, {REG_OPTION_CREATE_LINK}} :
          CreateKeyReq(2, name_a, o) /\ Len(keys') <= MaxValueKeys
    \/ \E h \in Handles, n \in ValueNames, t \in ValueTypes, d \in Payloads :
          SetKeyValueReq(h, n, t, d) /\ TotalValues(keys') <= MaxValues
    \/ \E h \in Handles, n \in ValueNames : GetKeyValueReq(h, n, 64)
    \/ \E h \in Handles, n \in ValueNames : DeleteKeyValueReq(h, n)
    \/ \E h \in Handles : DeleteKeyReq(h)
    \/ LoadRegistryReq(2, name_a, file_link, TRUE)
          /\ Len(keys') <= MaxValueKeys /\ TotalValues(keys') <= MaxValues
    \/ PeriodicSave(<<TRUE, TRUE, TRUE>>)

ValueSpec == Init /\ [][ValueNext]_vars

----------------------------------------------------------------------------
(* Lookups through symbolic links, one follow_symlink at a time *)

name_t == <<116>>                        \* "t"
link_name(i) == <<108, 96 + i>>          \* "la", "lb", ...

\* the registry after a client has created, under Machine, the key t and n
\* symbolic links: link i points to link i + 1, the last one to t or, for a
\* ring, back to the first one
RECURSIVE make_links(_, _, _, _)
make_links(S, i, n, ring) ==
    IF i > n THEN S
    ELSE With(create_key(S, 2, link_name(i), <<>>, {REG_OPTION_CREATE_LINK}, {}), LAMBDA c :
         With(set_value(c.S, c.key, symlink_value, REG_LINK,
                        WideToBytes(IF i < n THEN link_name(i + 1)
                                    ELSE IF ring THEN link_name(1) ELSE name_t)), LAMBDA S1 :
              make_links(S1, i + 1, n, ring)))

link_registry(n, ring) ==
    With(create_key(init_registry(1), 2, name_t, <<>>, {}, {}).S, LAMBDA S0 :
         make_links(S0, 1, n, ring))

LinkInit ==
    /\ current_time = 1
    /\ \E n \in 1..MaxChain, ring \in BOOLEAN : keys = link_registry(n, ring).keys
    /\ prefix_type = PREFIX_32BIT
    /\ events = <<FALSE>>
    /\ reply = Reply("init_registry", "SUCCESS")
    /\ crashed = FALSE
    /\ lk = lk_idle
    /\ closed = {}
    /\ save_timeout_user = "pending"

\* the first link of the chain
lk_first == find_subkey(keys, 2, link_name(1)).key

\* open_key of the first link of the chain under Machine: key_lookup_name
\* finds the key and enters its symlink loop, unless OBJ_OPENLINK is given
KeyLookupStart(attributes) ==
    /\ ~crashed /\ lk.pc = "idle"
    /\ lk' = [lk_idle EXCEPT !.pc = IF OBJ_OPENLINK \in attributes THEN "done" ELSE "loop",
                             !.found = lk_first,
                             !.attr = attributes]
    /\ UNCHANGED <<keys, current_time, prefix_type, events, reply, crashed, closed,
                   save_timeout_user>>

\* one turn of its while (found->flags & KEY_SYMLINK) loop
SymlinkStep ==
    /\ ~crashed /\ lk.pc = "loop"
    /\ \E s \in {symlink_step(keys, lk.err, lk.found, lk.attr, lk.iteration)} :
          lk' = [pc |-> s.pc, found |-> s.found, iteration |-> s.iteration,
                 err |-> s.err, crashed |-> s.crashed, attr |-> lk.attr]
    /\ UNCHANGED <<keys, current_time, prefix_type, events, reply, crashed, closed,
                   save_timeout_user>>

\* key_lookup_name returns, the lookup of the rest of the name ends, and
\* open_key replies
KeyLookupEnd ==
    /\ ~crashed /\ lk.pc \in {"done", "fail"}
    /\ \E r \in {key_lookup_found(keys, link_name(1), <<>>, lk, lk.attr)} :
       \E o \in {open_result(lookup_next(keys, 2, r, lk.attr))} :
          /\ reply' = [Reply("open_key", o.err) EXCEPT !.key = o.obj]
          /\ crashed' = o.crashed
    /\ lk' = lk_idle
    /\ UNCHANGED <<keys, current_time, prefix_type, events, closed, save_timeout_user>>

LinkNext ==
    \/ \E a \in {{}, {OBJ_OPENLINK}} : KeyLookupStart(a)
    \/ SymlinkStep
    \/ KeyLookupEnd

LinkSpec ==
    LinkInit /\ [][LinkNext]_vars /\ WF_vars(SymlinkStep) /\ WF_vars(KeyLookupEnd)

\* the lookup taken in steps replies what the open_key request replies
LookupInSteps ==
    lk.pc \in {"done", "fail"} =>
        \E o \in {open_named_object(keys, "SUCCESS", 2, link_name(1), lk.attr)} :
            /\ ENABLED KeyLookupEnd
            /\ o = open_result(lookup_next(keys, 2,
                       key_lookup_found(keys, link_name(1), <<>>, lk, lk.attr), lk.attr))

----------------------------------------------------------------------------
(* The properties *)

Lower(c) == IF c \in 65..90 THEN c + 32 ELSE c

\* name a sorts strictly before name b, case ignored: at the first position
\* where they differ a has the smaller character, or a is a proper prefix of b
NameBefore(a, b) ==
    \E i \in 1..Len(b) :
        /\ i - 1 <= Len(a)
        /\ \A j \in 1..(i - 1) : Lower(a[j]) = Lower(b[j])
        /\ (Len(a) = i - 1 \/ Lower(a[i]) < Lower(b[i]))

SameName(a, b) == Len(a) = Len(b) /\ \A j \in 1..Len(a) : Lower(a[j]) = Lower(b[j])

\* C1: the child array of every key is strictly sorted by the
\* case-insensitive name order, so no two children have the same name
ChildrenSorted ==
    \A k \in 1..Len(keys) : \A i \in 1..(Len(keys[k].subkeys) - 1) :
        NameBefore(keys[keys[k].subkeys[i]].name, keys[keys[k].subkeys[i + 1]].name)

\* Machine holds the children "a" and "B", in that order
ChildrenSortedSeen ==
    /\ Len(keys[2].subkeys) = 2
    /\ keys[keys[2].subkeys[1]].name = name_a
    /\ keys[keys[2].subkeys[2]].name = name_B

\* the keys on the parent chain of a key
RECURSIVE ParentChain(_, _)
ParentChain(K, k) ==
    IF K[k].parent = NULL THEN {} ELSE {K[k].parent} \cup ParentChain(K, K[k].parent)

\* C2: when a key is dirty, every key on its parent chain is dirty
DirtyChain ==
    \A k \in 1..Len(keys) :
        KEY_DIRTY \in keys[k].flags =>
            \A p \in ParentChain(keys, k) : KEY_DIRTY \in keys[p].flags

\* a branch has been saved (User\.Default is clean) and since then a value
\* has been set on a key under Machine, which is dirty again
DirtyChainSeen ==
    /\ KEY_DIRTY \notin keys[4].flags
    /\ \E k \in 6..Len(keys) :
          /\ keys[k].parent = 2
          /\ keys[k].values # <<>>
          /\ KEY_DIRTY \in keys[k].flags
          /\ KEY_DIRTY \in keys[2].flags

\* C3: no key is both volatile and dirty, and every child of a volatile key
\* is volatile
VolatileNeverDirty ==
    \A k \in 1..Len(keys) :
        /\ ~({KEY_VOLATILE, KEY_DIRTY} \subseteq keys[k].flags)
        /\ (keys[k].parent # NULL /\ KEY_VOLATILE \in keys[keys[k].parent].flags)
              => KEY_VOLATILE \in keys[k].flags

\* a volatile key has a volatile child, and the creation of a non-volatile
\* child has just been refused
VolatileNeverDirtySeen ==
    /\ reply.op = "create_key"
    /\ reply.status = "CHILD_MUST_BE_VOLATILE"
    /\ \E k \in 1..Len(keys) :
          /\ keys[k].parent # NULL
          /\ KEY_VOLATILE \in keys[k].flags
          /\ KEY_VOLATILE \in keys[keys[k].parent].flags

\* C4: every value of a key with the SYMLINK flag is named SymbolicLinkValue
\* and has the type REG_LINK
SymlinkValuesOnly ==
    \A k \in 1..Len(keys) :
        KEY_SYMLINK \in keys[k].flags =>
            \A i \in 1..Len(keys[k].values) :
                /\ SameName(keys[k].values[i].name, symlink_value)
                /\ keys[k].values[i].type = REG_LINK

\* C5: a request made with the handle of a deleted key fails with
\* KEY_DELETED and changes neither the keys nor the events
DeletedHandleRefused ==
    [][\A h \in Handles :
          (/\ KEY_DELETED \in keys[h].flags
           /\ \/ \E f \in {file_bad, file_AB} : LoadRegistryReq(h, name_a, f, TRUE)
              \/ \E n \in {name_a, name_B}, o \in {{}, {REG_OPTION_VOLATILE}} :
                    CreateKeyReq(h, n, o)
              \/ DeleteKeyReq(h)
              \/ UnloadRegistryReq(h, TRUE))
          => (reply'.status = "KEY_DELETED" /\ keys' = keys /\ events' = events)]_vars

\* the number of times a key stands in the child array of another key
Occurrences(K, p, k) == Cardinality({i \in 1..Len(K[p].subkeys) : K[p].subkeys[i] = k})

\* C6: a key that is not deleted, the root aside, stands once in the child
\* array of its parent and its parent chain ends at the root; a deleted key
\* has no parent, stands in no child array and has no children
TreeShape ==
    \A k \in 1..Len(keys) :
        IF KEY_DELETED \in keys[k].flags
        THEN /\ keys[k].parent = NULL
             /\ keys[k].subkeys = <<>>
             /\ \A p \in 1..Len(keys) : Occurrences(keys, p, k) = 0
        ELSE k # root_key =>
             /\ keys[k].parent # NULL
             /\ root_key \in ParentChain(keys, k)
             /\ \A p \in 1..Len(keys) :
                   Occurrences(keys, p, k) = IF p = keys[k].parent THEN 1 ELSE 0

\* C7: a lookup under way never makes more than 18 turns of the symlink
\* loop, and it always comes to its end, with a key or with an error
LookupTerminates ==
    /\ [](lk.iteration <= MAX_SYMLINK_ITERATIONS + 1)
    /\ (lk.pc = "loop") ~> (lk.pc \in {"done", "fail"})

\* the lookup of a link that points to itself has ended with an error
LookupTerminatesSeen ==
    /\ Len(keys) = 7
    /\ SameName(BytesToWide(keys[7].values[1].data), keys[7].name)
    /\ lk.pc = "fail"
    /\ lk.err = "NAME_TOO_LONG"

\* the key a symbolic link under Machine points to, NULL if there is none
LinkTarget(K, k) ==
    LET hits == {c \in 1..Len(K) : /\ K[c].parent = 2
                                   /\ K[k].values # <<>>
                                   /\ SameName(K[c].name, BytesToWide(K[k].values[1].data))}
    IN IF hits = {} THEN NULL ELSE CHOOSE c \in hits : TRUE

\* the number of links to follow from a key to a key that is no link,
\* counted up to a limit
RECURSIVE Hops(_, _, _)
Hops(K, k, limit) ==
    IF limit = 0 \/ k = NULL \/ KEY_SYMLINK \notin K[k].flags THEN 0
    ELSE 1 + Hops(K, LinkTarget(K, k), limit - 1)

\* C8: open_key without OBJ_OPENLINK succeeds when 16 links are to be
\* followed and fails with NAME_TOO_LONG when 17 or more are
SixteenHops ==
    [][(OBJ_OPENLINK \notin lk.attr /\ KeyLookupEnd) =>
          /\ Hops(keys, lk_first, MaxChain + 1) = 16
                => (reply'.status = "SUCCESS" /\ reply'.key # NULL)
          /\ Hops(keys, lk_first, MaxChain + 1) >= 17
                => reply'.status = "NAME_TOO_LONG"]_vars

\* the type and the bytes a key holds under a name, <<>> if it holds none
StoredValue(K, k, n) ==
    LET hits == {i \in 1..Len(K[k].values) : SameName(K[k].values[i].name, n)}
    IN IF hits = {} THEN <<>>
       ELSE LET v == K[k].values[CHOOSE i \in hits : TRUE] IN <<v.type, v.data>>

IdenticalSetIsNoOp ==
    [][\A h \in Handles, n \in ValueNames, t \in ValueTypes, d \in Payloads :
          (/\ KEY_DELETED \notin keys[h].flags
           /\ StoredValue(keys, h, n) = <<t, d>>
           /\ SetKeyValueReq(h, n, t, d))
          => (keys' = keys /\ events' = events)]_vars

----------------------------------------------------------------------------
(* The order of the values: values of Machine and of a loaded key *)

MaxOrderValues == 3    \* values stored in the whole tree while their order is exercised

name_V == <<86>>       \* "V"
OrderNames == {<<>>, name_a, name_v, name_V}

\* a registry file: [a] @="..." "V"="..."
file_values ==
    [header |-> TRUE,
     lines |-> << [t |-> "key", name |-> name_a, mod |-> 0],
                  [t |-> "value", name |-> <<>>, type |-> REG_SZ,
                   data |-> <<1, 0>>, ok |-> TRUE],
                  [t |-> "value", name |-> name_V, type |-> REG_SZ,
                   data |-> <<>>, ok |-> TRUE] >>]

OrderNext ==
    \/ \E h \in Handles, n \in OrderNames :
          SetKeyValueReq(h, n, REG_SZ, <<1, 0>>) /\ TotalValues(keys') <= MaxOrderValues
    \/ \E h \in Handles, n \in OrderNames : DeleteKeyValueReq(h, n)
    \/ LoadRegistryReq(2, name_a, file_values, TRUE)
          /\ Len(keys') <= MaxValueKeys /\ TotalValues(keys') <= MaxOrderValues

OrderSpec == Init /\ [][OrderNext]_vars

\* C11: the value array of every key is strictly sorted by the
\* case-insensitive name order, so no two values have the same name and the
\* value with the empty name, if there is one, comes first
ValuesSorted ==
    \A k \in 1..Len(keys) :
        /\ \A i \in 1..(Len(keys[k].values) - 1) :
              NameBefore(keys[k].values[i].name, keys[k].values[i + 1].name)
        /\ \A i \in 1..Len(keys[k].values) : keys[k].values[i].name = <<>> => i = 1

\* the loaded key holds the default value, then "a", then "V", the last two
\* of which were stored in the other order
ValuesSortedSeen ==
    /\ Len(keys) = 6
    /\ Len(keys[6].values) = 3
    /\ keys[6].values[1].name = <<>>
    /\ keys[6].values[2].name = name_a
    /\ keys[6].values[3].name = name_V

----------------------------------------------------------------------------
(* Change notifications: subscriptions on Machine and on the keys under it *)

\* a variant of key_close_handle that sends the notification and keeps the
\* record; the removal of the record of a closed handle is tested against it
key_close_handle_keep(S, key, process, handle) ==
    With(find_notify(S.keys, key, process, handle), LAMBDA i :
         IF i # 0 THEN do_notification(S, key, i, FALSE) ELSE S)

\* close the notification associated with a handle
key_close_handle(S, key, process, handle) ==
    With(find_notify(S.keys, key, process, handle), LAMBDA i :
         IF i # 0 THEN do_notification(S, key, i, TRUE) ELSE S)

\* close a handle on a key: key_close_handle is called, then the handle is
\* no longer valid
CloseHandleReq(handle) ==
    /\ ~crashed
    /\ handle \notin closed
    /\ \E S1 \in {key_close_handle(Start, KeyOf(handle), 1, handle)} :
          Finish(S1, Reply("close_handle", "SUCCESS"))
    /\ closed' = closed \cup {handle}
    /\ UNCHANGED <<current_time, prefix_type, lk, save_timeout_user>>

\* the handles still open: those of Handles and a second handle on Machine
NotifyHandles == {h \in Handles \cup {2 + SecondHandle} : h \notin closed}

\* the handles that subscribe: the two handles on Machine
Subscribers == {h \in NotifyHandles : KeyOf(h) = 2}

Filters == {{REG_NOTIFY_CHANGE_NAME}, {REG_NOTIFY_CHANGE_LAST_SET}}

MaxNotifyKeys == 7     \* keys ever created, the five initial ones included
MaxNotifyValues == 1   \* values in the whole tree
MaxClosed == 1         \* handles closed
MaxArmed == 1          \* notification records in the whole tree

NotifyInit ==
    /\ current_time = 1
    /\ keys = init_registry(1).keys
    /\ prefix_type = PREFIX_32BIT
    /\ events = <<FALSE, FALSE>>
    /\ reply = Reply("init_registry", "SUCCESS")
    /\ crashed = FALSE
    /\ lk = lk_idle
    /\ closed = {}
    /\ save_timeout_user = "pending"

\* subscriptions of every kind on Machine, changes on Machine and below it
FilterNext ==
    \/ \E h \in Subscribers, e \in 1..2, st \in BOOLEAN, f \in Filters :
          SetRegistryNotificationReq(h, e, st, f) /\ TotalNotify(keys') <= MaxArmed
    \/ \E h \in NotifyHandles :
          CreateKeyReq(h, name_a, {}) /\ Len(keys') <= MaxNotifyKeys
    \/ \E h \in NotifyHandles :
          SetKeyValueReq(h, name_v, REG_SZ, <<1, 0>>) /\ TotalValues(keys') <= MaxNotifyValues
    \/ \E h \in NotifyHandles : DeleteKeyValueReq(h, name_v)
    \/ \E h \in NotifyHandles \ Subscribers : DeleteKeyReq(h)
    \/ \E h \in Subscribers : CloseHandleReq(h) /\ Cardinality(closed') <= MaxClosed

FilterSpec == NotifyInit /\ [][FilterNext]_vars

\* several subscriptions, on Machine and on the keys under it
NotifyNext ==
    \/ \E h \in NotifyHandles, e \in 1..2 :
          SetRegistryNotificationReq(h, e, TRUE, {REG_NOTIFY_CHANGE_NAME})
             /\ TotalNotify(keys') <= MaxNotify
    \/ \E h \in NotifyHandles :
          CreateKeyReq(h, name_a, {}) /\ Len(keys') <= MaxNotifyKeys
    \/ \E h \in NotifyHandles : DeleteKeyReq(h)
    \/ \E h \in NotifyHandles : CloseHandleReq(h)

NotifySpec == NotifyInit /\ [][NotifyNext]_vars

----------------------------------------------------------------------------
(* Which subscriptions a change signals *)

\* a is a proper ancestor of k
RECURSIVE IsAncestor(_, _, _)
IsAncestor(K, a, k) ==
    IF K[k].parent = NULL THEN FALSE
    ELSE K[k].parent = a \/ IsAncestor(K, a, K[k].parent)

\* a change of kind C at key M must signal the record n of key k
Expected(n, k, M, C) ==
    IF k = M THEN C \cap n.filter # {}
    ELSE /\ IsAncestor(keys, k, M)
         /\ n.subtree
         /\ (C \ {REG_NOTIFY_CHANGE_LAST_SET}) \cap n.filter # {}

\* the step signals the armed records a change of kind C at key M must
\* signal, which stay in their lists with the event cleared, leaves the
\* other records as they are and sets no other event
FilterRule(M, C) ==
    /\ \A k \in 1..Len(keys) :
          /\ Len(keys'[k].notify_list) = Len(keys[k].notify_list)
          /\ \A i \in 1..Len(keys[k].notify_list) :
                IF /\ keys[k].notify_list[i].event # NULL
                   /\ Expected(keys[k].notify_list[i], k, M, C)
                THEN /\ events'[keys[k].notify_list[i].event]
                     /\ keys'[k].notify_list[i] =
                           [keys[k].notify_list[i] EXCEPT !.event = NULL]
                ELSE keys'[k].notify_list[i] = keys[k].notify_list[i]
    /\ \A e \in 1..Len(events) :
          events'[e] # events[e]
          => /\ events'[e]
             /\ \E k \in 1..Len(keys) : \E i \in 1..Len(keys[k].notify_list) :
                   /\ keys[k].notify_list[i].event = e
                   /\ Expected(keys[k].notify_list[i], k, M, C)

\* the step sets or deletes a value of the key of handle h
ValueChange(h) ==
    /\ reply'.op \in {"set_key_value", "delete_key_value"}
    /\ reply'.status = "SUCCESS"
    /\ keys'[KeyOf(h)].values # keys[KeyOf(h)].values
    /\ \/ SetKeyValueReq(h, name_v, REG_SZ, <<1, 0>>)
       \/ DeleteKeyValueReq(h, name_v)

\* the step creates a child of key M through handle h, or deletes the key of
\* handle h, a child of M
NameChange(h, M) ==
    \/ /\ reply'.op = "create_key"
       /\ reply'.created = 1
       /\ M = KeyOf(h)
       /\ CreateKeyReq(h, name_a, {})
    \/ /\ reply'.op = "delete_key"
       /\ reply'.status = "SUCCESS"
       /\ M = keys[KeyOf(h)].parent
       /\ DeleteKeyReq(h)

\* C12: a change of kind C at key M signals an armed subscription on M iff C
\* meets its filter, and an armed subscription on a proper ancestor of M iff
\* it has the subtree flag and its filter meets C without CHANGE_LAST_SET; a
\* value set or delete signals no subscription of an ancestor
FilteredNotification ==
    [][\A h \in NotifyHandles :
          /\ ValueChange(h) => FilterRule(KeyOf(h), {REG_NOTIFY_CHANGE_LAST_SET})
          /\ \A M \in 1..Len(keys) :
                NameChange(h, M) => FilterRule(M, {REG_NOTIFY_CHANGE_NAME})]_vars

\* a key was created two levels below Machine and the subtree subscription
\* on Machine has been signaled
FilteredNotificationSeen ==
    /\ reply.op = "create_key" /\ reply.created = 1
    /\ reply.key = 7
    /\ keys[7].parent = 6 /\ keys[6].parent = 2
    /\ Len(keys[2].notify_list) = 1
    /\ keys[2].notify_list[1].event = NULL
    /\ keys[2].notify_list[1].subtree
    /\ keys[2].notify_list[1].filter = {REG_NOTIFY_CHANGE_NAME}
    /\ events[1]

----------------------------------------------------------------------------
(* One signal for each arming *)

\* the step arms the subscription of handle h
Arms(h) ==
    /\ reply'.op = "set_registry_notification"
    /\ reply'.status = "PENDING"
    /\ \E e \in 1..2 : SetRegistryNotificationReq(h, e, TRUE, {REG_NOTIFY_CHANGE_NAME})

\* the step closes handle h
Closes(h) ==
    /\ reply'.op = "close_handle"
    /\ CloseHandleReq(h)

\* C13: a subscription whose event has been signaled stays in the notify
\* list of its key with its event cleared, and signals nothing, until it is
\* armed again or its handle is closed; an event is set only by an armed
\* subscription, which the same step disarms or removes: one arming sets the
\* event at most once
SignaledOnce ==
    [][/\ \A k \in 1..Len(keys) : \A i \in 1..Len(keys[k].notify_list) :
             (/\ keys[k].notify_list[i].event = NULL
              /\ ~Arms(keys[k].notify_list[i].hkey)
              /\ ~Closes(keys[k].notify_list[i].hkey))
             => \E j \in 1..Len(keys'[k].notify_list) :
                   keys'[k].notify_list[j] = keys[k].notify_list[i]
       /\ \A e \in 1..Len(events) :
             (events'[e] /\ ~events[e])
             => \E k \in 1..Len(keys) : \E i \in 1..Len(keys[k].notify_list) :
                   /\ keys[k].notify_list[i].event = e
                   /\ \A j \in 1..Len(keys'[k].notify_list) :
                         keys'[k].notify_list[j].hkey = keys[k].notify_list[i].hkey
                         => keys'[k].notify_list[j].event = NULL]_vars

\* the subscription of Machine has been signaled and a key is then deleted
\* under Machine: a second change that matches it
SignaledOnceSeen ==
    /\ reply.op = "delete_key" /\ reply.status = "SUCCESS"
    /\ Len(keys) = 6 /\ KEY_DELETED \in keys[6].flags
    /\ Len(keys[2].notify_list) = 1
    /\ keys[2].notify_list[1].event = NULL
    /\ events = <<TRUE, FALSE>>
    /\ closed = {}

----------------------------------------------------------------------------
(* Arming a subscription again *)

\* C14: every set_registry_notification that succeeds (STATUS_PENDING), the
\* first of a handle or a later one, leaves the subscription of the handle
\* with the event, the subtree flag and the filter of the request
ArmingTakesRequest ==
    [][\A h \in Subscribers, e \in 1..2, st \in BOOLEAN, f \in Filters :
          (/\ reply'.op = "set_registry_notification"
           /\ reply'.status = "PENDING"
           /\ SetRegistryNotificationReq(h, e, st, f))
          => \E i \in 1..Len(keys'[KeyOf(h)].notify_list) :
                keys'[KeyOf(h)].notify_list[i] =
                   [event |-> e, subtree |-> st, filter |-> f, hkey |-> h, process |-> 1]]_vars

----------------------------------------------------------------------------
(* One subscription for each handle *)

\* the records <<key, position>> of the tree
Records(K) == {r \in (1..Len(K)) \X (1..MaxNotify + 1) : r[2] <= Len(K[r[1]].notify_list)}

\* the records the process holds through handle h
RecordsOf(K, h) ==
    {r \in Records(K) : K[r[1]].notify_list[r[2]].hkey = h
                        /\ K[r[1]].notify_list[r[2]].process = 1}

\* C15: the (process, handle) pair of a subscription has no second record,
\* in the list of its key or of any other key, and the record is in the list
\* of the key the handle refers to; a set_registry_notification of a handle
\* that has a record and succeeds (STATUS_PENDING) replaces the event of that
\* record and adds no record
OneRecordPerHandle ==
    [][/\ \A r \in Records(keys') :
             /\ RecordsOf(keys', keys'[r[1]].notify_list[r[2]].hkey) = {r}
             /\ KeyOf(keys'[r[1]].notify_list[r[2]].hkey) = r[1]
       /\ \A h \in NotifyHandles : \A e \in 1..2 :
             (/\ reply'.op = "set_registry_notification"
              /\ reply'.status = "PENDING"
              /\ RecordsOf(keys, h) # {}
              /\ SetRegistryNotificationReq(h, e, TRUE, {REG_NOTIFY_CHANGE_NAME}))
             => /\ Records(keys') = Records(keys)
                /\ \A r \in RecordsOf(keys, h) :
                      keys' = [keys EXCEPT ![r[1]].notify_list[r[2]].event = e]]_vars

\* both handles on Machine have a subscription and one of them was armed a
\* second time: event 1 has been signaled, no handle was closed, and the two
\* records now hold event 2
OneRecordPerHandleSeen ==
    /\ reply.op = "set_registry_notification"
    /\ closed = {}
    /\ Len(keys[2].notify_list) = 2
    /\ keys[2].notify_list[1].event = 2
    /\ keys[2].notify_list[2].event = 2
    /\ events[1]

----------------------------------------------------------------------------
(* Closing a handle *)

\* the list without the records of handle h
RECURSIVE WithoutHandle(_, _)
WithoutHandle(L, h) ==
    IF L = <<>> THEN <<>>
    ELSE IF Head(L).hkey = h /\ Head(L).process = 1 THEN WithoutHandle(Tail(L), h)
    ELSE <<Head(L)>> \o WithoutHandle(Tail(L), h)

\* C16: the step that closes a handle removes the subscription of the handle
\* from the notify list of its key and leaves every other record in place;
\* no notify list ever holds a record of a handle that has been closed, so no
\* later change signals through it
ClosedHandleUnsubscribed ==
    [][/\ \A h \in NotifyHandles :
             Closes(h) =>
                keys' = [keys EXCEPT ![KeyOf(h)].notify_list = WithoutHandle(@, h)]
       /\ \A h \in closed' : RecordsOf(keys', h) = {}]_vars

\* the first handle on Machine was closed while it had a subscription (its
\* event 1 was signaled by the close); the subscription of the second handle
\* is still armed
ClosedHandleUnsubscribedSeen ==
    /\ reply.op = "close_handle"
    /\ closed = {2}
    /\ Len(keys) = 5
    /\ Len(keys[2].notify_list) = 1
    /\ keys[2].notify_list[1].hkey = 2 + SecondHandle
    /\ keys[2].notify_list[1].event = 2
    /\ events = <<TRUE, FALSE>>

----------------------------------------------------------------------------
(* Creation and deletion of keys, volatile or not, under a subscription,
   with a clock *)

TouchNext ==
    \/ \E h \in NotifyHandles :
          SetRegistryNotificationReq(h, 1, TRUE, {REG_NOTIFY_CHANGE_NAME})
             /\ TotalNotify(keys') <= MaxArmed
    \/ \E h \in NotifyHandles, n \in {name_a, name_B}, o \in {{}, {REG_OPTION_VOLATILE}} :
          CreateKeyReq(h, n, o) /\ Len(keys') <= MaxNotifyKeys
    \/ \E h \in NotifyHandles : DeleteKeyReq(h)
    \/ Tick

TouchSpec == NotifyInit /\ [][TouchNext]_vars

\* C17: a create_key request refused with CHILD_MUST_BE_VOLATILE leaves the
\* child arrays, the modification times and the flags of all keys as they
\* were and signals no event
RefusedCreateNoEffect ==
    [][(/\ reply'.op = "create_key"
        /\ reply'.status = "CHILD_MUST_BE_VOLATILE")
       => /\ Len(keys') = Len(keys)
          /\ \A k \in 1..Len(keys) :
                /\ keys'[k].subkeys = keys[k].subkeys
                /\ keys'[k].modif = keys[k].modif
                /\ keys'[k].flags = keys[k].flags
          /\ events' = events]_vars


\* C18: a delete_key request on a key that has a child is refused with
\* ACCESS_DENIED and changes no key, no flag and no event
DeleteWithChildrenRefused ==
    [][\A h \in NotifyHandles :
          (/\ reply'.op = "delete_key"
           /\ KEY_DELETED \notin keys[KeyOf(h)].flags
           /\ keys[KeyOf(h)].subkeys # <<>>
           /\ DeleteKeyReq(h))
          => /\ reply'.status = "ACCESS_DENIED"
             /\ keys' = keys
             /\ events' = events]_vars

\* the deletion of a key with a child, under a key that has an armed
\* subscription, has been refused
DeleteWithChildrenRefusedSeen ==
    /\ reply.op = "delete_key" /\ reply.status = "ACCESS_DENIED"
    /\ Len(keys) = 7
    /\ keys[6].parent = 2 /\ keys[7].parent = 6
    /\ Len(keys[2].notify_list) = 1
    /\ keys[2].notify_list[1].event = 1
    /\ ~events[1]

----------------------------------------------------------------------------
(* Saving the branches while keys are created and deleted *)

\* the outcomes of writing the files of the three branches
SaveOutcomes == {<<TRUE, TRUE, TRUE>>, <<FALSE, TRUE, TRUE>>, <<TRUE, FALSE, FALSE>>}

SaveNext ==
    \/ \E h \in NotifyHandles :
          SetRegistryNotificationReq(h, 1, TRUE, {REG_NOTIFY_CHANGE_NAME})
             /\ TotalNotify(keys') <= MaxArmed
    \/ \E h \in NotifyHandles, o \in {{}, {REG_OPTION_VOLATILE}} :
          CreateKeyReq(h, name_a, o) /\ Len(keys') <= MaxNotifyKeys
    \/ CreateKeyReq(2, name_B, {}) /\ Len(keys') <= MaxNotifyKeys
    \/ \E h \in NotifyHandles : DeleteKeyReq(h)
    \/ \E w \in SaveOutcomes : PeriodicSave(w)
    \/ Tick

SaveSpec == NotifyInit /\ [][SaveNext]_vars


\* the sequence without the key
RECURSIVE WithoutKey(_, _)
WithoutKey(L, key) ==
    IF L = <<>> THEN <<>>
    ELSE IF Head(L) = key THEN WithoutKey(Tail(L), key)
    ELSE <<Head(L)>> \o WithoutKey(Tail(L), key)

\* the step deletes the childless key of handle h, a child of P
Deletes(h, P) ==
    /\ reply'.op = "delete_key"
    /\ reply'.status = "SUCCESS"
    /\ P = keys[KeyOf(h)].parent
    /\ P # NULL
    /\ DeleteKeyReq(h)

\* what a deletion does to the key of handle h and to its parent P, dirty
\* flags apart
Unlinked(h, P) ==
    /\ keys'[P].subkeys = WithoutKey(keys[P].subkeys, KeyOf(h))
    /\ KEY_DELETED \in keys'[KeyOf(h)].flags
    /\ keys'[KeyOf(h)].parent = NULL
    /\ keys'[P].modif = current_time
    /\ FilterRule(P, {REG_NOTIFY_CHANGE_NAME})

\* C19 as stated: a successful delete_key of a childless key K with parent P
\* takes K out of P's child array, the other children keeping their order,
\* sets DELETED on K and clears its parent, updates P's modification time,
\* signals CHANGE_NAME to the subscriptions on P and the subtree
\* subscriptions on P's ancestors, and leaves every non-volatile key among P
\* and its ancestors DIRTY
DeleteMarksParents ==
    [][\A h \in NotifyHandles : \A P \in 1..Len(keys) :
          Deletes(h, P) =>
             /\ Unlinked(h, P)
             /\ \A a \in 1..Len(keys) :
                   (/\ a = P \/ IsAncestor(keys, a, P)
                    /\ KEY_VOLATILE \notin keys[a].flags)
                   => KEY_DIRTY \in keys'[a].flags]_vars

\* C19, amended: the same, but P and its ancestors are left DIRTY when P is
\* not volatile, and no flag of P or of an ancestor changes when P is volatile
DeleteMarksNonVolatileParents ==
    [][\A h \in NotifyHandles : \A P \in 1..Len(keys) :
          Deletes(h, P) =>
             /\ Unlinked(h, P)
             /\ \A a \in 1..Len(keys) :
                   (a = P \/ IsAncestor(keys, a, P))
                   => IF KEY_VOLATILE \in keys[P].flags
                      THEN keys'[a].flags = keys[a].flags
                      ELSE KEY_DIRTY \in keys'[a].flags]_vars

\* after a save, a key two levels below Machine has been deleted at a later
\* time: its parent is not volatile, is dirty again and has the new time,
\* and the subscription on Machine has been signaled
DeleteMarksNonVolatileParentsSeen ==
    /\ reply.op = "delete_key" /\ reply.status = "SUCCESS"
    /\ Len(keys) = 7
    /\ KEY_DELETED \in keys[7].flags
    /\ keys[6].parent = 2 /\ keys[6].flags = {KEY_DIRTY}
    /\ keys[6].subkeys = <<>>
    /\ current_time = 2 /\ keys[6].modif = 2 /\ keys[2].modif = 1
    /\ KEY_DIRTY \notin keys[4].flags
    /\ KEY_DIRTY \in keys[2].flags
    /\ Len(keys[2].notify_list) = 1 /\ keys[2].notify_list[1].event = NULL
    /\ events[1]


\* the keys of the branch of key b
Subtree(K, b) == {k \in 1..Len(K) : k = b \/ IsAncestor(K, b, k)}

----------------------------------------------------------------------------
(* Saving a branch and loading it back *)

MaxRoundKeys   == 7   \* keys ever allocated while files are saved and loaded
MaxRoundValues == 1   \* values stored in the whole tree meanwhile

\* every kind of type and every shape of payload that dump_value tells apart:
\* empty, a lone null, a terminated string, an unterminated one, an odd
\* length, four bytes that are no terminated string
RoundTypes == {REG_NONE, REG_SZ, REG_EXPAND_SZ, REG_BINARY, REG_DWORD, REG_MULTI_SZ}
RoundPayloads == {<<>>, <<0, 0>>, <<65, 0, 0, 0>>, <<65, 0>>, <<65, 0, 0>>, <<1, 2, 3, 255>>}

\* a registry file: [B] with #time=3 (a time the clock never shows) and #class="c"
file_class ==
    [header |-> TRUE,
     lines |-> << [t |-> "key", name |-> name_B, mod |-> 0],
                  [t |-> "option", opt |-> "time", val |-> 3],
                  [t |-> "option", opt |-> "class", val |-> <<99>>] >>]

RoundNext ==
    \/ \E h \in Handles, n \in {name_a, <<>>},
          o \in {{}, {REG_OPTION_VOLATILE}, {REG_OPTION_CREATE_LINK}} :
          CreateKeyReq(h, n, o) /\ Len(keys') <= MaxRoundKeys
    \/ \E h \in Handles :
          SetKeyValueReq(h, name_v, REG_SZ, <<65, 0, 0, 0>>)
             /\ TotalValues(keys') <= MaxRoundValues
    \/ LoadRegistryReq(2, name_a, file_class, TRUE) /\ Len(keys') <= MaxRoundKeys
    \/ Tick

RoundSpec == Init /\ [][RoundNext]_vars

\* the values of every type and shape, on Machine and on one key under it
TextNext ==
    \/ \E o \in {{}, {REG_OPTION_VOLATILE}} :
          CreateKeyReq(2, name_a, o) /\ Len(keys') <= MaxValueKeys
    \/ \E h \in Handles, n \in {name_v, <<>>}, t \in RoundTypes, d \in RoundPayloads :
          SetKeyValueReq(h, n, t, d) /\ TotalValues(keys') <= MaxRoundValues

TextSpec == Init /\ [][TextNext]_vars

\* the tree of a new server that loaded the file saved for Machine
Reload(K, ptype, now) ==
    load_keys(init_registry(now), PREFIX_UNKNOWN, 2, save_all_subkeys(K, ptype, 2), 0).S.keys

\* the names from below base down to k
RECURSIVE PathOf(_, _, _)
PathOf(K, k, base) ==
    IF k = base THEN <<>> ELSE PathOf(K, K[k].parent, base) \o <<K[k].name>>

\* k or one of its parents is volatile
RECURSIVE InVolatile(_, _)
InVolatile(K, k) ==
    \/ KEY_VOLATILE \in K[k].flags
    \/ K[k].parent # NULL /\ InVolatile(K, K[k].parent)

\* the keys of the branch that are in no volatile subtree
Persistent(K, base) == {k \in Subtree(K, base) : ~InVolatile(K, k)}

\* C21: saving the branch of Machine and loading the file into a new server
\* gives exactly the keys of the branch that are in no volatile subtree, at
\* the same paths, with the same class and the same symlink flag
RoundTripKeys ==
    ~crashed =>
        \E R \in {Reload(keys, prefix_type, current_time)} :
            /\ {PathOf(keys, k, 2) : k \in Persistent(keys, 2)}
                  = {PathOf(R, r, 2) : r \in Subtree(R, 2)}
            /\ \A k \in Persistent(keys, 2), r \in Subtree(R, 2) :
                  PathOf(keys, k, 2) = PathOf(R, r, 2) =>
                     /\ R[r].class = keys[k].class
                     /\ (KEY_SYMLINK \in R[r].flags) = (KEY_SYMLINK \in keys[k].flags)

\* C22: a "#time=T" line of a loaded file sets the modification time of the
\* key of its section to T, whatever the section line or the clock say
TimeOptionSetsModif ==
    [][(/\ LoadRegistryReq(2, name_a, file_class, TRUE)
        /\ reply'.status = "SUCCESS")
       => \A k \in Subtree(keys', 2) :
             PathOf(keys', k, 2) = <<name_a, name_B>> => keys'[k].modif = 3]_vars

\* the payload is a string with its terminating null
Terminated(data) ==
    /\ Len(data) >= 2 /\ Len(data) % 2 = 0
    /\ data[Len(data)] = 0 /\ data[Len(data) - 1] = 0

RECURSIVE ValuesOf(_, _)
ValuesOf(K, set) ==
    IF set = {} THEN 0
    ELSE With(CHOOSE k \in set : TRUE,
              LAMBDA k : Len(K[k].values) + ValuesOf(K, set \ {k}))

\* C24: the file written for any key b, by a periodic save, by the flush at
\* shutdown or by a save_registry request, has no section and no value of a
\* volatile key or of a key below a volatile key, and no such key of the
\* branch of Machine is in the tree that a new server loads from its file
VolatileNeverSaved ==
    ~crashed =>
        /\ \A b \in 1..Len(keys) :
              KEY_DELETED \notin keys[b].flags =>
                 \E lines \in {save_subkeys(keys, b, b)} :
                    /\ \A i \in 1..Len(lines) :
                          lines[i].t = "key" =>
                             \E k \in Persistent(keys, b) :
                                lines[i].name = IF k = b THEN <<>>
                                                ELSE dump_path(keys, k, b)
                    /\ Cardinality({i \in 1..Len(lines) : lines[i].t = "value"})
                          = ValuesOf(keys, Persistent(keys, b))
        /\ \E R \in {Reload(keys, prefix_type, current_time)} :
              \A k \in Subtree(keys, 2), r \in Subtree(R, 2) :
                 InVolatile(keys, k) => PathOf(R, r, 2) # PathOf(keys, k, 2)

\* a volatile key under a saved key holds a value
VolatileNeverSavedSeen ==
    /\ ~crashed
    /\ \E k \in Subtree(keys, 2) :
          /\ KEY_VOLATILE \in keys[k].flags
          /\ keys[k].values # <<>>
          /\ KEY_VOLATILE \notin keys[keys[k].parent].flags

----------------------------------------------------------------------------
(* The files of the branches *)

Destinations ==
    {[kind |-> "missing", nlink |-> 0, writable |-> FALSE]}
    \cup [kind : {"regular"}, nlink : {1, 2}, writable : BOOLEAN]
    \cup [kind : {"symlink", "other"}, nlink : {1}, writable : BOOLEAN]

FileOutcomes ==
    [taken : {0, 1}, create : BOOLEAN, fdopen : BOOLEAN, fclose : BOOLEAN,
     rename : BOOLEAN]

\* save_branch of one branch, as periodic_save and flush_registry call it;
\* the reply records the destination and what was done to the files
SaveBranch(key, dest, io) ==
    /\ ~crashed
    /\ \E f \in {save_file(dest, io)} :
       \E r \in {save_branch(Start, key, f.ret = 1)} :
          /\ keys' = r.S.keys
          /\ reply' = [op |-> "save_branch", key |-> key, opened |-> r.opened,
                       dest |-> dest, io |-> io,
                       file |-> IF r.opened THEN f ELSE no_file_effect]
                      @@ Reply("save_branch", "SUCCESS")
    /\ UNCHANGED <<current_time, prefix_type, events, crashed, lk, closed, save_timeout_user>>

FileNext ==
    \/ \E o \in {{}, {REG_OPTION_VOLATILE}} :
          CreateKeyReq(2, name_a, o) /\ Len(keys') <= MaxValueKeys
    \/ \E dest \in Destinations, io \in FileOutcomes :
          SaveBranch(save_branch_info[1], dest, io)

FileSpec == Init /\ [][FileNext]_vars

\* the temporary file of the last save: created under the first free name,
\* written, renamed over the destination if that worked, removed if not
ThroughTemporary ==
    /\ ~reply.file.truncated
    /\ IF ~reply.io.create THEN reply.file = no_file_effect
       ELSE /\ reply.file.tmp = reply.io.taken
            /\ reply.file.written = (IF reply.io.fdopen THEN "tmp" ELSE "none")
            /\ reply.file.renamed
                  = (reply.io.fdopen /\ reply.io.fclose /\ reply.io.rename)
            /\ reply.file.unlinked = ~reply.file.renamed
            /\ reply.file.ret = (IF reply.file.renamed THEN 1 ELSE 0)

\* the destination of the last save was truncated and written itself
InPlace ==
    /\ reply.file.truncated
    /\ reply.file.tmp = -1 /\ ~reply.file.renamed /\ ~reply.file.unlinked
    /\ reply.file.written = (IF reply.io.fdopen THEN "dest" ELSE "none")
    /\ reply.file.ret = (IF reply.io.fdopen /\ reply.io.fclose THEN 1 ELSE 0)

\* C25 as stated: a save of a dirty branch writes in place when the
\* destination exists and has two or more links, is not a regular file or is
\* a symlink, and through a temporary file when it is a regular file with
\* one link or does not exist
SavesInPlaceOrRenamed ==
    (reply.op = "save_branch" /\ reply.opened) =>
        IF reply.dest.kind = "missing"
              \/ (reply.dest.kind = "regular" /\ reply.dest.nlink = 1)
        THEN ThroughTemporary ELSE InPlace

\* C25, amended: a save of a dirty branch writes in place when the
\* destination can be opened for writing and has two or more links, is not a
\* regular file or is a symlink; in every other case (a regular file with
\* one link, no file, a file that cannot be opened for writing) it goes
\* through a temporary file
SavesInPlaceIfWritable ==
    (reply.op = "save_branch" /\ reply.opened) =>
        IF reply.dest.writable
              /\ (reply.dest.kind # "regular" \/ reply.dest.nlink > 1)
        THEN InPlace ELSE ThroughTemporary

\* a dirty branch was saved over a symlink that cannot be opened for writing
SavesInPlaceIfWritableSeen ==
    /\ reply.op = "save_branch" /\ reply.opened
    /\ reply.dest.kind = "symlink" /\ ~reply.dest.writable
    /\ reply.file.renamed

\* the step linked a new key into the tree
LinkedNewKey ==
    /\ Len(keys') = Len(keys) + 1
    /\ keys'[Len(keys')].parent # NULL
    /\ \E i \in 1..Len(keys'[keys'[Len(keys')].parent].subkeys) :
          keys'[keys'[Len(keys')].parent].subkeys[i] = Len(keys')

\* C26: create_key replies created = 1 exactly when the request linked a new
\* key into the tree; when the key it returns existed before the request
\* (the parent itself for an empty path) it replies created = 0 with a
\* success status and leaves that key's class, flags, values and
\* modification time as they were
CreatedExactly ==
    [][\A h \in Handles, n \in {name_a, <<>>},
          o \in {{}, {REG_OPTION_VOLATILE}, {REG_OPTION_CREATE_LINK}} :
          (reply'.op = "create_key" /\ CreateKeyReq(h, n, o)) =>
             /\ (reply'.created = 1) <=> LinkedNewKey
             /\ (reply'.key # NULL /\ reply'.key <= Len(keys)) =>
                   /\ reply'.created = 0
                   /\ reply'.status = "SUCCESS"
                   /\ keys'[reply'.key].class = keys[reply'.key].class
                   /\ keys'[reply'.key].flags = keys[reply'.key].flags
                   /\ keys'[reply'.key].values = keys[reply'.key].values
                   /\ keys'[reply'.key].modif = keys[reply'.key].modif]_vars

----------------------------------------------------------------------------
(* The limits on the lengths of names *)

MaxLimitValues == 1   \* values stored in the whole tree while the limits are exercised

\* a name of n characters "x"
NameOfLen(n) == [i \in 1..n |-> 120]

\* value names of MAX_VALUE_LEN characters and of one more
value_name_max  == NameOfLen(MAX_VALUE_LEN)
value_name_over == NameOfLen(MAX_VALUE_LEN + 1)

\* path elements of MAX_NAME_LEN characters, of one and of two more
segment_max   == NameOfLen(MAX_NAME_LEN)
segment_over  == NameOfLen(MAX_NAME_LEN + 1)
segment_over2 == NameOfLen(MAX_NAME_LEN + 2)
Segments == {segment_max, segment_over, segment_over2}

\* a path of n characters: the element "x", a backslash, then "y" to the end
PathOfLen(n) == [i \in 1..n |-> IF i = 1 THEN 120 ELSE IF i = 2 THEN Backslash ELSE 121]

\* paths of 65532 and 65534 bytes
path_32766 == PathOfLen(32766)
path_32767 == PathOfLen(32767)

\* the key has no value of that name
NewValueName(h, n) ==
    \A i \in 1..Len(keys[KeyOf(h)].values) : keys[KeyOf(h)].values[i].name # n

\* set_key_value with names at and over the limit; a long value name is set
\* where the key has no value of that name yet
ValueLimitNext ==
    \/ \E o \in {{}, {REG_OPTION_VOLATILE}} :
          CreateKeyReq(2, name_a, o) /\ Len(keys') <= MaxValueKeys
    \/ \E h \in Handles, n \in {name_v, value_name_max, value_name_over}, d \in Payloads :
          /\ NewValueName(h, n)
          /\ SetKeyValueReq(h, n, REG_SZ, d)
          /\ TotalValues(keys') <= MaxLimitValues
    \/ Tick

ValueLimitSpec == Init /\ [][ValueLimitNext]_vars

\* create_key and open_key with path elements and paths at and over the limits
LimitNext ==
    \/ \E h \in Handles, n \in Segments \cup {name_a}, o \in {{}, {REG_OPTION_VOLATILE}} :
          CreateKeyReq(h, n, o) /\ Len(keys') <= MaxKeys
    \/ \E h \in Handles, n \in Segments \cup {path_32766, path_32767} :
          OpenKeyReq(h, n, {})
    \/ Tick

LimitSpec == Init /\ [][LimitNext]_vars

\* C27: set_key_value with a new value name of MAX_VALUE_LEN = 16383
\* characters stores the value; with a name of 16384 characters it fails
\* with NAME_TOO_LONG and leaves the key's values, flags and modification
\* time as they were
ValueNameLimit ==
    [][\A h \in Handles, d \in Payloads :
          reply'.op = "set_key_value" =>
             /\ \/ /\ reply'.status = "SUCCESS"
                   /\ Len(value_name_max) = 16383
                   /\ \E i \in 1..Len(keys'[KeyOf(h)].values) :
                         keys'[KeyOf(h)].values[i]
                            = [name |-> value_name_max, type |-> REG_SZ, data |-> d]
                \/ ~(/\ NewValueName(h, value_name_max)
                     /\ SetKeyValueReq(h, value_name_max, REG_SZ, d))
             /\ \/ /\ reply'.status = "NAME_TOO_LONG"
                   /\ Len(value_name_over) = 16384
                   /\ keys'[KeyOf(h)].values = keys[KeyOf(h)].values
                   /\ keys'[KeyOf(h)].flags = keys[KeyOf(h)].flags
                   /\ keys'[KeyOf(h)].modif = keys[KeyOf(h)].modif
                \/ ~SetKeyValueReq(h, value_name_over, REG_SZ, d)]_vars

\* a key holds a value whose name has 16383 characters
ValueNameLimitSeen ==
    \E k \in 1..Len(keys) : \E i \in 1..Len(keys[k].values) :
       /\ Len(keys[k].values[i].name) = 16383
       /\ keys[k].modif = 2

\* the child of key k that has this name, NULL if none
ChildNamed(K, k, n) ==
    IF \E i \in 1..Len(K[k].subkeys) : K[K[k].subkeys[i]].name = n
    THEN K[k].subkeys[CHOOSE i \in 1..Len(K[k].subkeys) : K[K[k].subkeys[i]].name = n]
    ELSE NULL

\* C28: create_key and open_key accept a path element of MAX_NAME_LEN = 256
\* characters: the key is created under that name and opened again; an
\* element of 257 or of 258 characters is refused with INVALID_PARAMETER and
\* no key is created
SegmentLimit ==
    [][\A h \in Handles :
          /\ reply'.op = "create_key" =>
                /\ \/ /\ reply'.status = "SUCCESS"
                      /\ Len(segment_max) = 256
                      /\ reply'.key # NULL
                      /\ reply'.key = ChildNamed(keys', KeyOf(h), segment_max)
                      /\ reply'.created = (IF ChildNamed(keys, KeyOf(h), segment_max) = NULL
                                           THEN 1 ELSE 0)
                   \/ ~CreateKeyReq(h, segment_max, {REG_OPTION_VOLATILE})
                /\ \A n \in {segment_over, segment_over2}, o \in {{}, {REG_OPTION_VOLATILE}} :
                      \/ /\ reply'.status = "INVALID_PARAMETER"
                         /\ Len(n) > 256
                         /\ keys' = keys
                      \/ ~CreateKeyReq(h, n, o)
          /\ reply'.op = "open_key" =>
                /\ \/ /\ reply'.key = ChildNamed(keys, KeyOf(h), segment_max)
                      /\ reply'.status = (IF reply'.key # NULL THEN "SUCCESS"
                                          ELSE "OBJECT_NAME_NOT_FOUND")
                   \/ ~OpenKeyReq(h, segment_max, {})
                /\ \A n \in {segment_over, segment_over2} :
                      \/ /\ reply'.status = "INVALID_PARAMETER"
                         /\ reply'.key = NULL
                         /\ keys' = keys
                      \/ ~OpenKeyReq(h, n, {})]_vars

\* a key with a name of 256 characters was opened
SegmentLimitSeen ==
    /\ reply.op = "open_key" /\ reply.status = "SUCCESS"
    /\ reply.key # NULL
    /\ Len(keys[reply.key].name) = 256

\* C29 as stated: open_key fails with OBJECT_NAME_INVALID exactly when the
\* path is longer than 65533 characters
PathLimitChars ==
    [][\A h \in Handles, n \in Segments \cup {path_32766, path_32767} :
          reply'.op = "open_key" =>
             \/ (reply'.status = "OBJECT_NAME_INVALID") = (Len(n) > 65533)
             \/ ~OpenKeyReq(h, n, {})]_vars

\* C29, amended: open_key fails with OBJECT_NAME_INVALID exactly when the
\* path has 65534 bytes or more, that is 32767 characters or more; a shorter
\* path is never refused for its length
PathLimitBytes ==
    [][\A h \in Handles, n \in Segments \cup {path_32766, path_32767} :
          reply'.op = "open_key" =>
             \/ /\ (reply'.status = "OBJECT_NAME_INVALID") = (Len(n) >= 32767)
                /\ keys' = keys
             \/ ~OpenKeyReq(h, n, {})]_vars

\* a path of 32767 characters was refused
PathLimitBytesSeen ==
    /\ reply.op = "open_key"
    /\ reply.status = "OBJECT_NAME_INVALID"
    /\ Len(path_32767) = 32767 /\ Len(path_32766) = 32766

----------------------------------------------------------------------------
(* The 32-bit view of a 64-bit prefix *)

softwareW == <<83, 111, 102, 116, 119, 97, 114, 101>>    \* "Software"
classesW == <<67, 108, 97, 115, 115, 101, 115>>    \* "Classes"
clsidW == <<67, 76, 83, 73, 68>>    \* "CLSID"
directshowW == <<68, 105, 114, 101, 99, 116, 83, 104, 111, 119>>    \* "DirectShow"
interfaceW == <<73, 110, 116, 101, 114, 102, 97, 99, 101>>    \* "Interface"
media_typeW == <<77, 101, 100, 105, 97, 32, 84, 121, 112, 101>>    \* "Media Type"
mediafoundationW == <<77, 101, 100, 105, 97, 70, 111, 117, 110, 100, 97, 116, 105, 111, 110>>    \* "MediaFoundation"

KEY_WOW64_64KEY == "KEY_WOW64_64KEY"
KEY_WOW64_32KEY == "KEY_WOW64_32KEY"

create_wow_key(S, parent, name, flags) ==
    With(create_key_recursive(S, parent, name, S.current_time), LAMBDA c :
         [c.S EXCEPT !.keys[c.key].flags = @ \cup flags])

\* the Classes subkeys that have a 32-bit variant, in the order of init_registry
wow_classes == <<clsidW, directshowW, interfaceW, media_typeW, mediafoundationW>>

RECURSIVE create_wow_classes(_, _, _, _)
create_wow_classes(S, classes, classes_wow64, i) ==
    IF i > Len(wow_classes) THEN S
    ELSE With(create_wow_key(S, classes, wow_classes[i], {KEY_WOW64}), LAMBDA S1 :
         With(create_wow_key(S1, classes_wow64, wow_classes[i], {}), LAMBDA S2 :
              create_wow_classes(S2, classes, classes_wow64, i + 1)))

\* what init_registry adds on a 64-bit prefix
init_wow64(S, hklm, now) ==
    With(create_key_recursive(S, hklm, softwareW, now), LAMBDA software :
    With(create_key_recursive(software.S, software.key, classesW, now), LAMBDA classes :
    With(create_key_recursive(classes.S, classes.key, wow6432node, now),
         LAMBDA classes_wow64 :
    With([classes_wow64.S EXCEPT !.keys[software.key].flags = @ \cup {KEY_WOW64}],
         LAMBDA S1 :
    With(create_wow_key(S1, software.key, wow6432node, {}), LAMBDA S2 :
    With([S2 EXCEPT !.keys[classes.key].flags = @ \cup {KEY_WOWSHARE}], LAMBDA S3 :
         create_wow_classes(S3, classes.key, classes_wow64.key, 1)))))))

\* init_registry on a 64-bit prefix with no registry file on disk: hklm is
\* key 2 of init_registry
init_registry_64(now) == init_wow64(init_registry(now), 2, now)

\* init_registry with system.reg as found on disk (file.present) and the
\* prefix type the build and WINEARCH give when there is no such file
init_registry_from(now, file, default_type) ==
    With(create_key(State(<<>>, <<>>, "SUCCESS", now), NULL, root_name, <<>>, {}, {}),
         LAMBDA root :
    With(create_key_recursive(root.S, root.key, HKLM, now), LAMBDA hklm :
    With(IF ~file.present THEN [S |-> hklm.S, prefix_type |-> default_type]
         ELSE With(load_keys(hklm.S, PREFIX_UNKNOWN, hklm.key, file, 0), LAMBDA l :
                   [S |-> l.S,
                    prefix_type |-> IF l.prefix_type = PREFIX_UNKNOWN
                                    THEN PREFIX_32BIT ELSE l.prefix_type]), LAMBDA sys :
    With(create_key_recursive(sys.S, root.key, HKU_default, now), LAMBDA hku :
    With(create_key_recursive(hku.S, root.key, current_user_path, now), LAMBDA hkcu :
         [S |-> IF sys.prefix_type = PREFIX_64BIT
                THEN init_wow64(hkcu.S, hklm.key, now) ELSE hkcu.S,
          prefix_type |-> sys.prefix_type])))))

\* the lookup attributes and the parent the create_key and open_key handlers
\* derive from the access mask of the request and the kind of the thread
wow64_request(K, parent, name, attributes, access, wow64_thread) ==
    With(IF wow64_thread /\ KEY_WOW64_64KEY \notin access
         THEN attributes \cup {WINE_OBJ_WOW64} ELSE attributes, LAMBDA attr :
    With(get_path_token(name, [pos |-> -1, len |-> 0]), LAMBDA token :
    With(IF KEY_WOW64_32KEY \in access
         THEN find_wow64_subkey(K, parent, token_str(name, token))
         ELSE [key |-> parent, crashed |-> FALSE], LAMBDA p :
         [attributes |-> attr, parent |-> p.key, crashed |-> p.crashed])))

\* what open_key finds for a parent key, a path and an access mask
open_key(K, parent, name, attributes, access, wow64_thread) ==
    IF 2 * Len(name) >= 65534 THEN Lookup(NULL, name, "OBJECT_NAME_INVALID", FALSE)
    ELSE With(wow64_request(K, parent, name, attributes, access, wow64_thread), LAMBDA q :
         IF q.crashed THEN Lookup(NULL, name, "SUCCESS", TRUE)
         ELSE open_named_object(K, "SUCCESS", q.parent, name, q.attributes))

\* open a registry key, from a thread of either kind
OpenKeyFrom(parent, name, access, wow64_thread) ==
    /\ ~crashed
    /\ \E p \in {get_hkey_obj(Start, parent)} :
          IF p.key = NULL /\ 2 * Len(name) < 65534
          THEN Finish(p.S, Reply("open_key", p.S.err))
          ELSE \E o \in {open_key(keys, KeyOf(parent), name, {}, access, wow64_thread)} :
                  Finish([Start EXCEPT !.crashed = o.crashed],
                         [Reply("open_key", o.err) EXCEPT !.key = o.obj])
    /\ UNCHANGED <<current_time, prefix_type, lk, closed, save_timeout_user>>

\* create a registry key, from a thread of either kind
CreateKeyFrom(rootdir, name, options, access, wow64_thread) ==
    /\ ~crashed
    /\ \E p \in {get_hkey_obj(Start, rootdir)} :
          IF p.key = NULL
          THEN Finish(p.S, Reply("create_key", p.S.err))
          ELSE \E q \in {wow64_request(keys, p.key, name, {}, access, wow64_thread)} :
               IF q.crashed
               THEN Finish(abort(p.S), Reply("create_key", "SUCCESS"))
               ELSE \E c \in {create_key(p.S, q.parent, name, <<>>, options, q.attributes)} :
                  Finish(c.S, [Reply("create_key",
                                     IF c.key # NULL /\ c.S.err = "OBJECT_NAME_EXISTS"
                                     THEN "SUCCESS" ELSE c.S.err)
                               EXCEPT !.key = c.key,
                                      !.created = IF c.key # NULL /\ c.S.err = "SUCCESS"
                                                  THEN 1 ELSE 0])
    /\ UNCHANGED <<current_time, prefix_type, lk, closed, save_timeout_user>>

\* keys ever allocated on the 64-bit prefix (19 exist after init_registry_64)
MaxWowKeys == 20

\* a path element followed by another
Under(a, b) == a \o <<Backslash>> \o b

\* the paths of the requests: a, CLSID, and both below Wow6432Node and Classes
WowNames == {name_a, clsidW}
WowPaths ==
    {wow6432node, Under(classesW, wow6432node)}
    \cup WowNames
    \cup {Under(wow6432node, x) : x \in WowNames}
    \cup {Under(classesW, x) : x \in WowNames}
    \cup {Under(classesW, Under(wow6432node, x)) : x \in WowNames}

Accesses == {{}, {KEY_WOW64_64KEY}, {KEY_WOW64_32KEY}}

WowInit ==
    /\ current_time = 1
    /\ keys = init_registry_64(1).keys
    /\ prefix_type = PREFIX_64BIT
    /\ events = <<FALSE>>
    /\ reply = Reply("init_registry", "SUCCESS")
    /\ crashed = FALSE
    /\ lk = lk_idle
    /\ closed = {}
    /\ save_timeout_user = "pending"

WowNext ==
    \/ \E h \in Handles, n \in WowPaths, a \in Accesses, w \in BOOLEAN :
          CreateKeyFrom(h, n, {}, a, w) /\ Len(keys') <= MaxWowKeys
    \/ \E h \in Handles, n \in WowPaths, a \in Accesses, w \in BOOLEAN :
          OpenKeyFrom(h, n, a, w)

WowSpec == WowInit /\ [][WowNext]_vars


\* the live keys that share their children between the two views
Shared == {s \in 1..Len(keys) : KEY_WOWSHARE \in keys[s].flags
                                /\ KEY_DELETED \notin keys[s].flags}

\* what a 32-bit thread gets from open_key for a path under a key
Wow64Open(K, s, path) == open_key(K, s, path, {}, {}, TRUE)

\* a 32-bit lookup of X under S\Wow6432Node ends as the 32-bit lookup of X
\* under S does, and on the child X of S when that child has no 32-bit variant
SharedChildren ==
    \A s \in Shared, x \in WowNames :
       /\ Wow64Open(keys, s, Under(wow6432node, x)).obj = Wow64Open(keys, s, x).obj
       /\ Wow64Open(keys, s, Under(wow6432node, x)).err = Wow64Open(keys, s, x).err
       /\ \/ find_subkey(keys, s, x).key = NULL
          \/ KEY_WOW64 \in keys[find_subkey(keys, s, x).key].flags
          \/ Wow64Open(keys, s, Under(wow6432node, x)).obj = find_subkey(keys, s, x).key

\* a 32-bit lookup whose last element is S\Wow6432Node returns S
SharedNode ==
    \A s \in Shared :
       find_subkey(keys, s, wow6432node).key # NULL =>
          /\ Wow64Open(keys, s, wow6432node).obj = s
          /\ \A h \in Handles :
                keys[KeyOf(h)].subkeys # <<>> /\ find_subkey(keys, KeyOf(h), keys[s].name).key = s
                /\ KEY_WOW64 \notin keys[KeyOf(h)].flags =>
                   Wow64Open(keys, KeyOf(h), Under(keys[s].name, wow6432node)).obj = s

\* a key a 32-bit thread creates at S\Wow6432Node\X is the key its open_key
\* of the same path returns afterwards
CreatedIsFound ==
    \A h \in Handles, x \in WowNames :
       KeyOf(h) \in Shared /\ reply'.op = "create_key" /\ reply'.created = 1 =>
          \/ Wow64Open(keys', KeyOf(h), Under(wow6432node, x)).obj = reply'.key
          \/ ~CreateKeyFrom(h, Under(wow6432node, x), {}, {}, TRUE)

\* C30: under a key S with WOWSHARE the 32-bit view shares the children of
\* S: S\Wow6432Node\X is looked up as X under S, a lookup that ends on
\* S\Wow6432Node returns S, and a key created by a 32-bit request at
\* S\Wow6432Node\X is found by the next 32-bit open_key of that path
WowShare == [](SharedChildren /\ SharedNode) /\ [][CreatedIsFound]_vars

WowShareLookups == [](SharedChildren /\ SharedNode)
WowShareLookupsSeen ==
    /\ reply.op = "open_key" /\ reply.status = "SUCCESS"
    /\ \E s \in Shared : find_subkey(keys, s, name_a).key # NULL
                         /\ reply.key = find_subkey(keys, s, name_a).key

----------------------------------------------------------------------------
(* The architecture of the prefix *)

ArchOption(v) == [t |-> "option", opt |-> "arch", val |-> v]
ArchFile(lines) == [present |-> TRUE, header |-> TRUE, lines |-> lines]
section_a == [t |-> "key", name |-> name_a, mod |-> 0]

no_file       == [present |-> FALSE, header |-> FALSE, lines |-> <<>>]
file_noheader == [present |-> TRUE, header |-> FALSE,
                  lines |-> <<ArchOption(PREFIX_64BIT), section_a>>]
file_plain    == ArchFile(<<>>)
file_win32    == ArchFile(<<ArchOption(PREFIX_32BIT), section_a>>)
file_win64    == ArchFile(<<ArchOption(PREFIX_64BIT), section_a>>)
file_win16    == ArchFile(<<ArchOption("win16"), section_a>>)
file_twice    == ArchFile(<<ArchOption(PREFIX_32BIT), ArchOption(PREFIX_64BIT)>>)
file_late     == ArchFile(<<section_a, ArchOption(PREFIX_64BIT)>>)

\* system.reg as init_registry may find it: these files hold no section, so
\* that the keys of init_registry keep their identities
SystemFiles == {no_file, file_plain, file_twice,
                [file_noheader EXCEPT !.lines = <<>>],
                ArchFile(<<ArchOption(PREFIX_32BIT)>>),
                ArchFile(<<ArchOption(PREFIX_64BIT)>>),
                ArchFile(<<ArchOption("win16")>>)}

\* the files load_registry is given
ArchFiles == {file_noheader, file_plain, file_win32, file_win64, file_win16, file_late}

\* keys ever allocated (19 exist after init_registry on a 64-bit prefix)
MaxArchKeys == 21

ArchInit ==
    /\ current_time = 1
    /\ \E f \in SystemFiles, d \in {PREFIX_32BIT, PREFIX_64BIT} :
          \E i \in {init_registry_from(1, f, d)} :
             /\ keys = i.S.keys
             /\ prefix_type = i.prefix_type
             /\ reply = [file |-> f, default_type |-> d] @@ Reply("init_registry", "SUCCESS")
    /\ events = <<FALSE>>
    /\ crashed = FALSE
    /\ lk = lk_idle
    /\ closed = {}
    /\ save_timeout_user = "pending"

ArchNext ==
    \/ \E n \in {name_a, name_B}, f \in ArchFiles :
          LoadRegistryReq(2, n, f, TRUE) /\ Len(keys') <= MaxArchKeys
    \/ Tick

ArchSpec == ArchInit /\ [][ArchNext]_vars

\* the architecture a file names in its global part, before any section
ArchTag(file) ==
    IF file.header /\ file.lines # <<>> /\ file.lines[1].t = "option"
       /\ file.lines[1].opt = "arch"
    THEN file.lines[1].val ELSE PREFIX_UNKNOWN

\* the first tag read by init_registry is the type of the prefix
FirstTagSets ==
    reply.op = "init_registry" /\ ArchTag(reply.file) \in {PREFIX_32BIT, PREFIX_64BIT} =>
       prefix_type = ArchTag(reply.file)

\* load_registry of a file left the tree as its create_key alone leaves it
OnlyMounted(h, n) ==
    keys' = create_key(Start, KeyOf(h), n, <<>>, {}, {}).S.keys

\* a file with a tag that differs, or without the header, is refused whole
LaterTagRefused ==
    \A n \in {name_a, name_B}, f \in ArchFiles :
       /\ reply'.op = "load_registry"
       /\ \/ ~f.header
          \/ ArchTag(f) \notin {PREFIX_UNKNOWN, prefix_type}
       => \/ /\ reply'.status = "NOT_REGISTRY_FILE"
             /\ prefix_type' = prefix_type
             /\ OnlyMounted(2, n)
          \/ ~LoadRegistryReq(2, n, f, TRUE)

----------------------------------------------------------------------------
(* Deleting keys of a 64-bit prefix *)

\* keys deleted in a run
MaxWowDeleted == 2

Deleted(K) == {k \in 1..Len(K) : KEY_DELETED \in K[k].flags}

WowDeleteNext ==
    \/ \E h \in Handles :
          DeleteKeyReq(h) /\ Cardinality(Deleted(keys')) <= MaxWowDeleted
    \/ \E h \in Handles :
          UnloadRegistryReq(h, TRUE) /\ Cardinality(Deleted(keys')) <= MaxWowDeleted
    \/ \E h \in Handles, n \in {softwareW, clsidW, Under(classesW, clsidW)},
          a \in Accesses, w \in BOOLEAN :
          OpenKeyFrom(h, n, a, w)

WowDeleteSpec == WowInit /\ [][WowDeleteNext]_vars

\* the 32-bit variant of a key with WOW64: its Wow6432Node child, or the key
\* of its name under the Wow6432Node child of a parent with WOWSHARE
HasVariant(K, k) ==
    IF K[k].parent # NULL /\ KEY_WOWSHARE \in K[K[k].parent].flags
    THEN /\ find_subkey(K, K[k].parent, wow6432node).key # NULL
         /\ find_subkey(K, find_subkey(K, K[k].parent, wow6432node).key,
                        K[k].name).key # NULL
    ELSE find_subkey(K, k, wow6432node).key # NULL

\* C32: every live key with the WOW64 flag has its 32-bit variant, and no
\* lookup has failed an assertion of find_wow64_subkey
VariantsKept ==
    /\ \A k \in 1..Len(keys) :
          KEY_WOW64 \in keys[k].flags /\ KEY_DELETED \notin keys[k].flags =>
             HasVariant(keys, k)
    /\ ~crashed


\* C33: no create_key ever reaches key_link_name with a name its parent
\* already holds: the assertion on find_subkey at the insertion point holds,
\* and no create_key request ends with the death of the server
LinkedOnce == [][reply'.op = "create_key" => reply'.status # "CRASH"]_vars


----------------------------------------------------------------------------
(* The content of the branches and their DIRTY flag *)

\* a file that sets the class and the link option of the key it is loaded into
file_options ==
    [header |-> TRUE,
     lines |-> << [t |-> "key", name |-> name_a, mod |-> 0],
                  [t |-> "option", opt |-> "class", val |-> <<99>>],
                  [t |-> "option", opt |-> "link", val |-> 0] >>]

DirtyNext ==
    \/ \E h \in Handles, o \in {{}, {REG_OPTION_VOLATILE}} :
          CreateKeyReq(h, name_a, o) /\ Len(keys') <= MaxValueKeys
    \/ \E h \in Handles, d \in {<<>>, <<1, 0>>} :
          SetKeyValueReq(h, name_v, REG_SZ, d) /\ TotalValues(keys') <= MaxValues
    \/ \E h \in Handles : DeleteKeyValueReq(h, name_v)
    \/ \E f \in {file_values, file_options} :
          /\ LoadRegistryReq(2, name_a, f, TRUE)
          /\ Len(keys') <= MaxValueKeys /\ TotalValues(keys') <= MaxValues
    \/ \E w \in SaveOutcomes : PeriodicSave(w)

DirtySpec == Init /\ [][DirtyNext]_vars

\* what a save of the branch keeps of it: the keys outside volatile subtrees
\* with their values, classes and link flags
Content(K, base) ==
    {<<PathOf(K, k, base), K[k].values, K[k].class, KEY_SYMLINK \in K[k].flags>> :
        k \in Persistent(K, base)}

\* C34: a branch whose content differs from what its last successful save
\* wrote has DIRTY set: a step that changes the content of a branch leaves
\* the branch key DIRTY (a branch key without DIRTY holds what was saved)
DirtyWhenChanged ==
    [][\A i \in 1..Len(save_branch_info) :
          Content(keys', save_branch_info[i]) # Content(keys, save_branch_info[i]) =>
             KEY_DIRTY \in keys'[save_branch_info[i]].flags]_vars


----------------------------------------------------------------------------
(* The condition of the write in place *)

\* C35 as stated: a save of a dirty branch truncates and writes the
\* destination in place exactly when it is a regular file with one link and
\* no symlink, and goes through a temporary file in every other case
InPlaceWhenPlainFile ==
    (reply.op = "save_branch" /\ reply.opened) =>
        IF reply.dest.kind = "regular" /\ reply.dest.nlink = 1
        THEN InPlace ELSE ThroughTemporary

\* the destinations save_branch writes into directly
WrittenDirectly(dest) ==
    dest.writable /\ (dest.kind \in {"symlink", "other"} \/ dest.nlink > 1)

\* C35, amended: a save of a dirty branch truncates the destination exactly
\* when the destination can be opened for writing and is a symlink, not a
\* regular file, or a file with two or more links, and then writes it in
\* place; a regular file with one link, like every other case, is replaced
\* through a temporary file and a rename
InPlaceExactlyWhenShared ==
    (reply.op = "save_branch" /\ reply.opened) =>
        /\ reply.file.truncated = WrittenDirectly(reply.dest)
        /\ reply.file.truncated => InPlace
        /\ ~reply.file.truncated => ThroughTemporary

\* a writable regular file with one link was replaced by a renamed
\* temporary file, and not truncated
InPlaceExactlyWhenSharedSeen ==
    /\ reply.op = "save_branch" /\ reply.opened
    /\ reply.dest = [kind |-> "regular", nlink |-> 1, writable |-> TRUE]
    /\ reply.file.renamed /\ ~reply.file.truncated


----------------------------------------------------------------------------
(* The periodic save timer and the flush at shutdown *)

\* A timeout user runs its callback once and is freed after it: the variable
\* save_timeout_user is "pending" while the callback is queued, "expired"
\* when it still holds a user that has fired, NULL when it holds none.

\* periodic saving of the registry: config_dir and server_dir tell whether
\* fchdir to the directory succeeds, written which branches can be written
periodic_save(S, config_dir, written, server_dir) ==
    IF ~config_dir THEN [S |-> S, user |-> "expired"]
    ELSE With(save_branches(S, written, 1), LAMBDA S1 :
         IF ~server_dir THEN [S |-> abort(S1), user |-> NULL]    \* fatal_error
         ELSE [S |-> S1, user |-> "pending"])     \* set_periodic_save_timer

\* save the modified registry branches to disk
flush_registry(S, config_dir, written, server_dir) ==
    IF ~config_dir THEN S
    ELSE With(save_branches(S, written, 1), LAMBDA S1 :
         IF ~server_dir THEN abort(S1)                           \* fatal_error
         ELSE delete_key(S1, root_key, TRUE).S)

\* the timer fires
PeriodicSaveFires(config_dir, written, server_dir) ==
    /\ ~crashed
    /\ save_timeout_user = "pending"
    /\ \E r \in {periodic_save(Start, config_dir, written, server_dir)} :
          /\ keys' = r.S.keys
          /\ crashed' = r.S.crashed
          /\ save_timeout_user' = r.user
    /\ reply' = Reply("periodic_save", "SUCCESS")
    /\ UNCHANGED <<current_time, prefix_type, events, lk, closed>>

\* the server shuts down
FlushRegistry(config_dir, written, server_dir) ==
    /\ ~crashed
    /\ reply.op # "flush_registry"
    /\ \E S1 \in {flush_registry(Start, config_dir, written, server_dir)} :
          /\ keys' = S1.keys
          /\ crashed' = S1.crashed
    /\ reply' = Reply("flush_registry", "SUCCESS")
    /\ UNCHANGED <<current_time, prefix_type, events, lk, closed, save_timeout_user>>

TimerNext ==
    \/ \E h \in Handles, o \in {{}, {REG_OPTION_VOLATILE}} :
          /\ reply.op # "flush_registry"
          /\ CreateKeyReq(h, name_a, o) /\ Len(keys') <= MaxKeys
    \/ \E c \in BOOLEAN, w \in SaveOutcomes, s \in BOOLEAN : PeriodicSaveFires(c, w, s)
    \/ \E c \in BOOLEAN, w \in SaveOutcomes, s \in BOOLEAN : FlushRegistry(c, w, s)

TimerSpec == Init /\ [][TimerNext]_vars

\* C36: from the end of init_registry until the shutdown the periodic save
\* timer is pending, whatever happened when it fired
TimerAlwaysPending ==
    ~crashed /\ reply.op # "flush_registry" => save_timeout_user = "pending"

\* C37: flush_registry cancels the periodic save timer before it saves the
\* branches and deletes the root key, and no periodic_save fires after it
FlushCancelsTimer ==
    [](reply.op = "flush_registry" => save_timeout_user # "pending")
    /\ [][reply.op = "flush_registry" => reply'.op # "periodic_save"]_vars


----------------------------------------------------------------------------
(* The capacity of the arrays of children and values *)

\* children ever created under Machine, keys deleted, names of values
MaxCapChildren == 13
MaxCapDeleted  == 4
MaxCapNames    == 10

\* the name of the n-th child, and the names of the values
CapName(n) == <<97 + n>>
CapValueNames == {CapName(n) : n \in 1..MaxCapNames}

\* Children are created under Machine in the order of their names, or values
\* are set in Machine, never both, so that each array is filled and emptied
\* on its own.
CapacityNext ==
    \/ /\ keys[2].values = <<>>
       /\ Len(keys) - 5 < MaxCapChildren
       /\ CreateKeyReq(2, CapName(Len(keys) - 4), {})
    \/ \E h \in Handles :
          /\ h # 2
          /\ DeleteKeyReq(h) /\ Cardinality(Deleted(keys')) <= MaxCapDeleted
    \/ \E n \in CapValueNames :
          /\ Len(keys) = 5
          /\ SetKeyValueReq(2, n, REG_SZ, <<1, 0>>)
    \/ \E n \in CapValueNames :
          DeleteKeyValueReq(2, n)

CapacitySpec == Init /\ [][CapacityNext]_vars

\* the capacity the stated policy gives an array of capacity c that held n
\* elements and now holds m
Policy(c, n, m) ==
    IF m = n + 1 THEN IF c = 0 THEN 8 ELSE IF n = c THEN c + (c \div 2) ELSE c
    ELSE IF m = n - 1 /\ c > 8 /\ 2 * m < c
    THEN IF c - (c \div 3) < 8 THEN 8 ELSE c - (c \div 3)
    ELSE c

\* C38: the arrays of children and of values follow the capacity policy: 0
\* until the first insert, then 8; old + old/2 on an insert into a full
\* array; max(8, old - old/3) on a removal exactly when the capacity is above
\* 8 and fewer than capacity/2 elements remain
CapacityPolicy ==
    [][\A k \in 1..Len(keys) :
          /\ keys'[k].nb_subkeys
                = Policy(keys[k].nb_subkeys, Len(keys[k].subkeys), Len(keys'[k].subkeys))
          /\ keys'[k].nb_values
                = Policy(keys[k].nb_values, Len(keys[k].values), Len(keys'[k].values))]_vars

\* C39: the children and the values in use never exceed the capacity of
\* their array, and a capacity that is not 0 is never below 8
WithinCapacity ==
    \A k \in 1..Len(keys) :
       /\ last_subkey(keys, k) + 1 <= keys[k].nb_subkeys
       /\ last_value(keys, k) + 1 <= keys[k].nb_values
       /\ keys[k].nb_subkeys = 0 \/ keys[k].nb_subkeys >= MIN_SUBKEYS
       /\ keys[k].nb_values = 0 \/ keys[k].nb_values >= MIN_VALUES

\* an array that had grown to 12 was shrunk to 8 with six elements left
WithinCapacitySeen ==
    /\ reply.op = "delete_key" /\ reply.status = "SUCCESS"
    /\ Len(keys) >= 14
    /\ keys[2].nb_subkeys = 8 /\ Len(keys[2].subkeys) = 6


----------------------------------------------------------------------------
(* The access rights of a key *)

\* An access mask is the set of its bits.  The key rights are those of the
\* Windows headers: KEY_READ, KEY_WRITE and KEY_ALL_ACCESS are made of the
\* standard and the specific rights, without SYNCHRONIZE.
GENERIC_READ    == "GENERIC_READ"
GENERIC_WRITE   == "GENERIC_WRITE"
GENERIC_EXECUTE == "GENERIC_EXECUTE"
GENERIC_ALL     == "GENERIC_ALL"

KEY_READ  == {"READ_CONTROL", "KEY_QUERY_VALUE", "KEY_ENUMERATE_SUB_KEYS", "KEY_NOTIFY"}
KEY_WRITE == {"READ_CONTROL", "KEY_SET_VALUE", "KEY_CREATE_SUB_KEY"}
KEY_EXECUTE == KEY_READ
KEY_ALL_ACCESS ==
    {"DELETE", "READ_CONTROL", "WRITE_DAC", "WRITE_OWNER",
     "KEY_QUERY_VALUE", "KEY_SET_VALUE", "KEY_CREATE_SUB_KEY",
     "KEY_ENUMERATE_SUB_KEYS", "KEY_NOTIFY", "KEY_CREATE_LINK"}

\* a variant of key_map_access that leaves the WoW64 bits in the mask; the
\* mapping of the access rights is tested against it
key_map_access_wow64(access) ==
    With(access \cup (IF GENERIC_READ \in access THEN KEY_READ ELSE {}), LAMBDA a1 :
    With(a1 \cup (IF GENERIC_WRITE \in a1 THEN KEY_WRITE ELSE {}), LAMBDA a2 :
    With(a2 \cup (IF GENERIC_EXECUTE \in a2 THEN KEY_EXECUTE ELSE {}), LAMBDA a3 :
    With(a3 \cup (IF GENERIC_ALL \in a3 THEN KEY_ALL_ACCESS ELSE {}), LAMBDA a4 :
         a4 \ {GENERIC_READ, GENERIC_WRITE, GENERIC_EXECUTE, GENERIC_ALL}))))

key_map_access(access) ==
    With(access \cup (IF GENERIC_READ \in access THEN KEY_READ ELSE {}), LAMBDA a1 :
    With(a1 \cup (IF GENERIC_WRITE \in a1 THEN KEY_WRITE ELSE {}), LAMBDA a2 :
    With(a2 \cup (IF GENERIC_EXECUTE \in a2 THEN KEY_EXECUTE ELSE {}), LAMBDA a3 :
    With(a3 \cup (IF GENERIC_ALL \in a3 THEN KEY_ALL_ACCESS ELSE {}), LAMBDA a4 :
         \* filter the WOW64 masks, as they aren't real access bits
         a4 \ {GENERIC_READ, GENERIC_WRITE, GENERIC_EXECUTE, GENERIC_ALL,
               KEY_WOW64_64KEY, KEY_WOW64_32KEY}))))

\* the masks of the requests: the generic bits, the WoW64 bits, two specific
\* rights and SYNCHRONIZE, in every combination
AccessMasks ==
    SUBSET {GENERIC_READ, GENERIC_WRITE, GENERIC_EXECUTE, GENERIC_ALL,
            KEY_WOW64_64KEY, KEY_WOW64_32KEY, "KEY_SET_VALUE", "KEY_NOTIFY",
            "SYNCHRONIZE"}

\* a handle is allocated with an access mask: the mask is mapped
MapAccess(access) ==
    /\ ~crashed
    /\ reply' = [access |-> access, mapped |-> key_map_access(access)]
                @@ Reply("map_access", "SUCCESS")
    /\ UNCHANGED <<keys, current_time, prefix_type, events, crashed, lk, closed,
                   save_timeout_user>>

\* a handle is duplicated with the access of the first: the mapped mask is
\* mapped again
MapAgain ==
    /\ ~crashed
    /\ reply.op = "map_access"
    /\ reply' = [access |-> reply.mapped, mapped |-> key_map_access(reply.mapped)]
                @@ Reply("map_again", "SUCCESS")
    /\ UNCHANGED <<keys, current_time, prefix_type, events, crashed, lk, closed,
                   save_timeout_user>>

AccessNext ==
    \/ \E a \in AccessMasks : MapAccess(a)
    \/ MapAgain

AccessSpec == Init /\ [][AccessNext]_vars

\* the rights a generic bit of the mask stands for
GenericRights(access) ==
    UNION {IF GENERIC_READ \in access THEN KEY_READ ELSE {},
           IF GENERIC_WRITE \in access THEN KEY_WRITE ELSE {},
           IF GENERIC_EXECUTE \in access THEN KEY_EXECUTE ELSE {},
           IF GENERIC_ALL \in access THEN KEY_ALL_ACCESS ELSE {}}

\* C40: key_map_access returns the mask with KEY_READ, KEY_WRITE,
\* KEY_EXECUTE and KEY_ALL_ACCESS added for the generic bits it holds and
\* with the four generic bits and the two WoW64 bits cleared; mapping the
\* result again changes nothing
AccessMapped ==
    reply.op \in {"map_access", "map_again"} =>
       /\ \A bit \in reply.access \cup reply.mapped \cup KEY_ALL_ACCESS :
             bit \in reply.mapped <=>
                /\ bit \in reply.access \cup GenericRights(reply.access)
                /\ bit \notin {GENERIC_READ, GENERIC_WRITE, GENERIC_EXECUTE, GENERIC_ALL,
                               KEY_WOW64_64KEY, KEY_WOW64_32KEY}
       /\ reply.op = "map_again" => reply.mapped = reply.access

\* GENERIC_ALL with a WoW64 bit was mapped to KEY_ALL_ACCESS, twice
AccessMappedSeen ==
    /\ reply.op = "map_again"
    /\ reply.mapped = KEY_ALL_ACCESS
    /\ key_map_access({GENERIC_ALL, KEY_WOW64_32KEY}) = KEY_ALL_ACCESS

====
